---- MODULE Spec2Model ----
(***************************************************************************)
(* Model of the Worker repository: one WorkerService processing one row   *)
(* of the shared workflow table (service/worker_service.py), the DAG      *)
(* executor WorkflowEngine.run (workflow/workflow_engine.py), the task    *)
(* runner WorkerEngine.execute_command (worker_engine.py), the registry   *)
(* (registry.py), the decorators (decorador.py) and the task template     *)
(* ITask.run (strategies/base.py).                                        *)
(*                                                                         *)
(* Node ids are the positions 1..n of the nodes in the definition's       *)
(* `nodes` list, so the insertion order of the `pending` dict is the      *)
(* numeric order of the ids.  depends_on is kept as a set: the code reads *)
(* it only through any(...) and all(...).  Task params are left out: they *)
(* reach the code only through the task's own behaviour, which is an      *)
(* input of the model.                                                    *)
(***************************************************************************)
EXTENDS Integers, Sequences, FiniteSets, TLC

\* ---------------------------------------------------------------- bounds
\* SpecDag: definitions of up to MaxNodes nodes and MaxEdges dependency edges
MaxNodes == 4
MaxEdges == 3
\* Spec: definitions of up to MaxTaskNodes nodes and MaxTaskEdges edges
MaxTaskNodes == 2
MaxTaskEdges == 2
\* SpecRetry: max_retries, delay_seconds and backoff_multiplier of a RetryDecorator
\* SpecService, SpecWorkers: rows in the shared store
MaxRows == 2
\* SpecWorkers: WorkerService processes polling the same store
MaxWorkers == 2
MaxRetries == 3
\* SpecPending: rows of the table _get_pending_workflows_from_db reads
MaxStoredRows == 3
\* SpecConvert: steps (or nodes) of a definition handed to the conversion
MaxSteps == 2
\* SpecRegistry: calls made on a Taskregistry
MaxRegistryCalls == 3
MaxDelay == 2
MaxMultiplier == 2
\* calls of run on one task instance
MaxRuns == 2
\* calls of _execute_workflow in SpecExecute
MaxExecCalls == 3

\* ------------------------------------------------------ Python values
PyNone == [py |-> "None"]
PyStr == [py |-> "str"]
PyDict(items) == [py |-> "dict", items |-> items]
IsDict(v) == v.py = "dict"
HasKey(v, k) == IsDict(v) /\ k \in DOMAIN v.items
EmptyMap == << >>

\* dict.get(key) on an envelope or record: None when the key is absent
Get(rec, k) == IF k \in DOMAIN rec THEN rec[k] ELSE PyNone

\* ------------------------------------------------------------ registry
\* WorkerService._register_tasks
RegisteredTypes == {"http_get", "validate_csv", "transform_simple", "save_db", "notify_mock"}

\* config/decoradores_config.py TASK_DECORATOR_MAP
TASK_DECORATOR_MAP(t) ==
  CASE t = "http_get" -> <<"TimeDecorator", "LoggingDecorator">>
    [] t = "validate_csv" -> <<"TimeDecorator", "LoggingDecorator">>
    [] t = "transform_simple" -> <<"TimeDecorator", "LoggingDecorator">>
    [] t = "save_db" -> <<"TimeDecorator", "LoggingDecorator">>
    [] t = "notify_mock" -> <<"TimeDecorator">>
    [] OTHER -> << >>

\* Task types a definition may name: a registered one and one the registry
\* does not know.
NodeTypes == {"http_get", "bogus_task"}

\* ------------------------------------------------------- task behaviour
\* What the concrete task does when its template method runs: whether
\* validate_params raises, what execute returns (or that it raises), what
\* on_error returns.
Returns(v) == [kind |-> "return", value |-> v]
Raises(e) == [kind |-> "raise", exc |-> e]

TaskSucceeds ==
  [validate |-> "ok", execute |-> Returns(PyDict([success |-> TRUE])), on_error |-> "dict"]
TaskFailsGracefully ==
  [validate |-> "ok", execute |-> Raises("TaskError"), on_error |-> "dict"]

\* the behaviours the five concrete tasks show: success, or a failure that
\* their on_error turns into a success:false mapping
CoreBehaviours == {TaskSucceeds, TaskFailsGracefully}

\* all behaviours the task contract allows: also a mapping without a success
\* field (notify_mock), a result that is no mapping, invalid params, the
\* default on_error that returns None, and an on_error that raises itself
TaskBehaviours ==
  CoreBehaviours \cup
  { [validate |-> "ok", execute |-> Returns(PyDict([sent |-> TRUE])), on_error |-> "dict"],
    [validate |-> "ok", execute |-> Returns(PyStr), on_error |-> "None"],
    [validate |-> "raise", execute |-> Returns(PyDict([success |-> TRUE])), on_error |-> "None"],
    [validate |-> "ok", execute |-> Raises("TaskError"), on_error |-> "None"],
    [validate |-> "ok", execute |-> Raises("TaskError"), on_error |-> "raise"] }

\* the exception raised inside the try block of ITask.run, or "none"
TaskFailure(b) ==
  IF b.validate = "raise" THEN "InvalidParams"
  ELSE IF b.execute.kind = "raise" THEN b.execute.exc
  ELSE "none"

\* mutant of TaskSteps: execute is called whatever validate_params did
TaskStepsUnguarded(b) ==
  <<"before", "validate_params", "execute">>
    \o (IF TaskFailure(b) # "none" THEN <<"on_error">> ELSE <<"after">>)

\* the methods ITask.run calls, in order (lines 70, 78, 82, 89, 105): an
\* exception of validate_params leaves the try block before execute
TaskSteps(b) ==
  <<"before", "validate_params">>
    \o (IF b.validate = "raise" THEN <<"on_error">>
        ELSE <<"execute">>
               \o (IF b.execute.kind = "raise" THEN <<"on_error">> ELSE <<"after">>))

\* the value a concrete on_error returns for an error
OnErrorResult(failure) == PyDict([success |-> FALSE, error |-> failure])

\* mutant of ITaskRun: the exception of a failing on_error is what propagates
ITaskRunHookErrorPropagates(b, context) ==
  LET failure == TaskFailure(b)
      state == [started |-> TRUE, completed |-> failure = "none",
                failed |-> failure # "none", error |-> failure]
  IN IF failure = "none"
       THEN [kind |-> "return", value |-> b.execute.value, context |-> context,
             calls |-> 1, state |-> state, on_error_calls |-> 0, behaviour |-> b,
             entered |-> << >>,
           steps |-> TaskSteps(b)]
     ELSE IF b.on_error = "dict"
       THEN [kind |-> "return", value |-> OnErrorResult(failure), context |-> context,
             calls |-> 1, state |-> state, on_error_calls |-> 1, behaviour |-> b,
             entered |-> << >>,
           steps |-> TaskSteps(b)]
     ELSE [kind |-> "raise",
           exc |-> IF b.on_error = "raise" THEN "HookError" ELSE failure,
           context |-> context, calls |-> 1, state |-> state, on_error_calls |-> 1,
           behaviour |-> b, entered |-> << >>,
           steps |-> TaskSteps(b)]

\* ITask.run (strategies/base.py): validate, execute; on an exception the
\* state is marked failed with the error, on_error is called once, a
\* non-None hook value is returned, otherwise (None, or the hook raised) the
\* original exception is re-raised.  `calls` counts the invocations of this
\* run, `state` is _execution_state when run ends, `steps` the methods
\* called.
ITaskRun(b, context) ==
  LET failure == TaskFailure(b)
      state == [started |-> TRUE, completed |-> failure = "none",
                failed |-> failure # "none", error |-> failure]
  IN IF failure = "none"
       THEN [kind |-> "return", value |-> b.execute.value, context |-> context,
             calls |-> 1, state |-> state, on_error_calls |-> 0, behaviour |-> b,
             entered |-> << >>,
           steps |-> TaskSteps(b)]
     ELSE IF b.on_error = "dict"
       THEN [kind |-> "return", value |-> OnErrorResult(failure), context |-> context,
             calls |-> 1, state |-> state, on_error_calls |-> 1, behaviour |-> b,
             entered |-> << >>,
           steps |-> TaskSteps(b)]
     ELSE [kind |-> "raise", exc |-> failure, context |-> context,
           calls |-> 1, state |-> state, on_error_calls |-> 1, behaviour |-> b,
           entered |-> << >>,
           steps |-> TaskSteps(b)]

\* ITask.__init__ (lines 33-41): the state of an instance that never ran
FreshState == [started |-> FALSE, completed |-> FALSE, failed |-> FALSE, error |-> "none"]

\* a Python object json.dumps cannot encode (a datetime, a set, an open
\* handle), and the key under which a mapping holds one
PyObject == [py |-> "object"]
ObjectKeys == {"handle"}

\* json.dumps(v) returns; otherwise it raises TypeError
JsonSerializable(v) ==
  /\ v.py # "object"
  /\ IsDict(v) => DOMAIN v.items \cap ObjectKeys = {}
JsonTypeError == "TypeError: not JSON serializable"

\* TimeDecorator.run / LoggingDecorator.run around an inner outcome;
\* `entered` lists the decorators whose run was entered, the outermost first.
\* LoggingDecorator dumps the params as JSON before it calls the inner run
\* (lines 111-116, outside its try) and the result as JSON after it (lines
\* 123-127, inside the try whose handler re-raises): a TypeError of either
\* dump leaves the decorator.
DecoratorRun(dec, params, inner) ==
  IF dec = "LoggingDecorator" /\ ~JsonSerializable(params)
    THEN [kind |-> "raise", exc |-> JsonTypeError, context |-> inner.context,
          calls |-> 0, state |-> FreshState, on_error_calls |-> 0,
          behaviour |-> inner.behaviour, entered |-> <<dec>>, steps |-> << >>]
  ELSE IF dec = "LoggingDecorator" /\ inner.kind = "return" /\ ~JsonSerializable(inner.value)
    THEN [kind |-> "raise", exc |-> JsonTypeError, context |-> inner.context,
          calls |-> inner.calls, state |-> inner.state,
          on_error_calls |-> inner.on_error_calls, behaviour |-> inner.behaviour,
          entered |-> <<dec>> \o inner.entered, steps |-> inner.steps]
  ELSE LET out == IF dec = "TimeDecorator" /\ inner.kind = "return" /\ IsDict(inner.value)
                    THEN [inner EXCEPT !.value =
                            PyDict(("_execution_time_seconds" :> TRUE) @@ inner.value.items)]
                    ELSE inner
       IN [out EXCEPT !.entered = <<dec>> \o @]

\* WorkerEngine._apply_decorators followed by run of the wrapped task: the
\* decorators are applied in list order, so the last one is the outermost.
RECURSIVE DecoratedRun(_, _, _, _)
DecoratedRun(decs, b, context, params) ==
  IF decs = << >> THEN ITaskRun(b, context)
  ELSE \* the inner run is made once and its outcome handed to the decorator
       CHOOSE out \in {DecoratorRun(decs[Len(decs)], params, inner) :
                         inner \in {DecoratedRun(SubSeq(decs, 1, Len(decs) - 1),
                                                  b, context, params)}} : TRUE

\* the params of a node of a definition: a JSON mapping
NodeParams == PyDict(EmptyMap)

\* Taskregistry.create
UnknownTaskType == "ValueError: Unknown task type"
RegistryCreate(registry, t) ==
  IF t \notin registry THEN Raises(UnknownTaskType)
  ELSE Returns(t)

\* TaskCommand built by WorkflowEngine.run
TaskCommand(wfName, node) ==
  [run_id |-> <<wfName, node.id>>, node_key |-> node.id, type |-> node.type]

\* WorkerEngine.execute_command(command, context): outcome of the call, with
\* the context the task's run received and the number of run invocations.
ExecuteCommand(registry, command, contextArg, b) ==
  LET created == RegistryCreate(registry, command.type)
      runContext == EmptyMap
      out == DecoratedRun(TASK_DECORATOR_MAP(command.type), b, runContext, NodeParams)
  IN IF created.kind = "raise"
       THEN [kind |-> "raise", exc |-> created.exc, ran |-> FALSE, run |-> "none", calls |-> 0]
     ELSE IF out.kind = "return"
       THEN [kind |-> "return", ran |-> TRUE, run |-> "return", calls |-> out.calls,
             context |-> out.context, task |-> out,
             value |-> [status |-> "SUCCESS", run_id |-> command.run_id,
                        node_key |-> command.node_key, result |-> out.value]]
     ELSE [kind |-> "return", ran |-> TRUE, run |-> "raise", calls |-> out.calls,
           context |-> out.context, task |-> out,
           value |-> [status |-> "FAILED", error |-> out.exc]]

\* ---------------------------------------------------------- definitions

\* all sets of at most k elements of S
RECURSIVE SetsUpTo(_, _)
SetsUpTo(S, k) ==
  IF k = 0 THEN {{}}
  ELSE LET P == SetsUpTo(S, k - 1) IN P \cup {s \cup {e} : s \in P, e \in S}

\* The `nodes` lists a producer may store: n <= maxN nodes, each with a type
\* and a depends_on that may name any id in 1..maxN (itself, a later node, a
\* missing node), with at most maxE dependency edges in all.
NodeLists(maxN, maxE, types) ==
  UNION { { [i \in 1..n |-> [id |-> i, type |-> ty[i],
                             depends_on |-> {e[2] : e \in {x \in E : x[1] = i}}]]
            : E \in SetsUpTo((1..n) \X (1..maxN), maxE), ty \in [1..n -> types] }
          : n \in 0..maxN }

\* ------------------------------------------------------------ variables
VARIABLES
  row,          \* the SharedWorkflowRow in the shared store
  stats,        \* WorkerService.stats
  registry,     \* Taskregistry._registry (its keys)
  pc,           \* position of _execute_workflow / WorkflowEngine.run
  wf,           \* the WorkflowDefinition handed to run()
  pending,      \* run(): ids still pending
  passList,     \* run(): what is left of list(pending.items()) in this pass
  progress,     \* run(): progress flag of the pass
  executed,     \* run(): executed set
  node_status,  \* run(): node id -> SUCCESS | FAILED | SKIPPED
  results,      \* run(): node id -> result
  result_keys,  \* run(): the keys of results in the order the dict holds them
  context,      \* run(): node id -> result
  workflowRun,  \* the WorkflowRun row of this run (or NoRow)
  nodeRuns,     \* the NodeRun rows written, in order
  wfResult,     \* the WorkflowResult run() returned (or NoResult)
  exc,          \* the exception that left run() (or NoExc)
  calls,        \* node id -> outcome of its execute_command call
  trace,        \* the nodes executed or skipped so far, in order
  \* the polling thread and the thread that calls start() and stop()
  table,              \* the other rows of the shared store, by id
  pending_workflows,  \* _poll_loop: ids of the rows read in this tick
  wfIndex,            \* _poll_loop: position of the for loop in that list
  stop_flag,          \* WorkerService._stop_flag
  is_stopped,         \* WorkerService._is_stopped
  thread,             \* WorkerService._polling_thread: none | alive | dead
  mainpc,             \* the thread that calls start() and stop(): idle, join
                      \* (inside the first stop), stopped (a stop() has
                      \* returned), stopped_again (a later stop() has returned)
  \* several WorkerService processes on one shared store
  store,        \* row id -> row of the shared store
  workers,      \* worker -> position, rows read, row in hand, result
  history,      \* row id -> the statuses written to the row, in order
  runs,         \* row id -> the workers that executed the row, in order
  \* one call of RetryDecorator.run
  retry,
  \* a Taskregistry on its own
  taskRegistry, \* Taskregistry._registry: task type -> task class
  regCalls,     \* the calls made on it so far, with their outcomes
  \* one call of _get_pending_workflows_from_db
  query,
  \* one call of _convert_api_workflow_to_definition
  conversion,
  \* an ITask instance (strategies/base.py) and the calls of its run:
  \* state is _execution_state, outcomes the calls made so far
  instance,
  \* a call of run on a task wrapped in Timing/Logging decorators
  decorated,
  \* calls of _execute_workflow of one WorkerService on a store whose
  \* writes may fail: rows, stats, the call in progress, the calls made
  execution

engineVars == <<row, stats, registry, pc, wf, pending, passList, progress, executed,
                node_status, results, result_keys, context, workflowRun, nodeRuns, wfResult, exc,
                calls, trace>>
serviceVars == <<table, pending_workflows, wfIndex, stop_flag, is_stopped, thread, mainpc>>
workerVars == <<store, workers, history, runs>>
retryVars == <<retry>>
registryVars == <<taskRegistry, regCalls>>
queryVars == <<query>>
convertVars == <<conversion>>
instanceVars == <<instance>>
decoratedVars == <<decorated>>
taskVars == <<instanceVars, decoratedVars>>
executeVars == <<execution>>
componentVars == <<retryVars, registryVars, queryVars, convertVars, taskVars, executeVars>>
vars == <<engineVars, serviceVars, workerVars, componentVars>>

NoRow == [status |-> "none"]
NoResult == [status |-> "none"]
NoExc == "none"
NoWorkflow == [name |-> "none", nodes |-> << >>]
CyclicOrBlockedDAG == "RuntimeError: dependencias circulares o tareas bloqueadas"

\* ----------------------------------------------------------- operators
\* mutant of SortedSeq: the ids in reverse order
RECURSIVE SortedSeqReversed(_)
SortedSeqReversed(S) ==
  IF S = {} THEN << >>
  ELSE LET m == CHOOSE x \in S : \A y \in S : x >= y
       IN <<m>> \o SortedSeqReversed(S \ {m})

\* list(pending.items()): the pending ids in insertion order
RECURSIVE SortedSeq(_)
SortedSeq(S) ==
  IF S = {} THEN << >>
  ELSE LET m == CHOOSE x \in S : \A y \in S : x <= y
       IN <<m>> \o SortedSeq(S \ {m})

\* d[k] = v on a Python dict: a new key goes to the end of the key order, a
\* key the dict holds keeps its place
DictKeysAfterSet(keys, k) ==
  IF \E i \in DOMAIN keys : keys[i] = k THEN keys ELSE Append(keys, k)

\* mutant of DepFailed: all(...) in place of any(...)
DepFailedAll(node, status) ==
  /\ node.depends_on # {}
  /\ \A dep \in node.depends_on : dep \in DOMAIN status /\ status[dep] = "FAILED"

\* WorkflowEngine.run line 50: some dependency has status FAILED
DepFailed(node, status) ==
  \E dep \in node.depends_on : dep \in DOMAIN status /\ status[dep] = "FAILED"

\* WorkflowEngine.run line 63: every dependency is in executed
DepsDone(node, done) == \A dep \in node.depends_on : dep \in done

\* WorkflowEngine.run lines 53-56: the synthetic record of a skipped node
SkippedRecord(node) == PyDict([status |-> "SKIPPED", reason |-> node.depends_on])

\* mutant of NodeStatusOf: only the envelope status is read
NodeStatusOfEnvelopeOnly(task_result) ==
  IF Get(task_result, "status") = "SUCCESS" THEN "SUCCESS" ELSE "FAILED"

\* WorkflowEngine.run lines 79-85: status of an executed node
NodeStatusOf(task_result) ==
  LET result_data == Get(task_result, "result")
  IN IF Get(task_result, "status") = "SUCCESS"
        /\ ~(IsDict(result_data) /\ HasKey(result_data, "success")
             /\ result_data.items["success"] = FALSE)
       THEN "SUCCESS"
     ELSE "FAILED"

\* mutant of ReduceStatus: the two non-SUCCESS branches exchanged
ReduceStatusSwapped(status) ==
  IF \A n \in DOMAIN status : status[n] = "SUCCESS" THEN "SUCCESS"
  ELSE IF \E n \in DOMAIN status : status[n] = "SUCCESS" THEN "FAILED"
  ELSE "PARTIAL_SUCCESS"

\* WorkflowEngine.run lines 112-117: reduction of the node statuses
ReduceStatus(status) ==
  IF \A n \in DOMAIN status : status[n] = "SUCCESS" THEN "SUCCESS"
  ELSE IF \E n \in DOMAIN status : status[n] = "SUCCESS" THEN "PARTIAL_SUCCESS"
  ELSE "FAILED"

\* WorkflowRepository.update_workflow_run: the result_summary it writes
ResultSummary(res) ==
  [k \in DOMAIN res |->
     IF IsDict(res[k])
       THEN (IF "status" \in DOMAIN res[k].items THEN res[k].items["status"] ELSE "OK")
     ELSE res[k].py]

\* WorkflowRepository.save_node_run as called by run(): result_data or {}
NodeRunRow(node, status, result_data) ==
  [node_id |-> node.id, type |-> node.type, status |-> status,
   result |-> IF result_data = PyNone \/ result_data = PyDict(EmptyMap)
                THEN PyDict(EmptyMap) ELSE result_data]

\* mutant of MapWorkerStatusToApi: a partial success counts as failed
MapWorkerStatusPartialFails(worker_status) ==
  CASE worker_status = "SUCCESS" -> "completado"
    [] worker_status = "RUNNING" -> "en_progreso"
    [] OTHER -> "fallido"

\* WorkerService._map_worker_status_to_api
MapWorkerStatusToApi(worker_status) ==
  CASE worker_status = "SUCCESS" -> "completado"
    [] worker_status = "FAILED" -> "fallido"
    [] worker_status = "PARTIAL_SUCCESS" -> "completado"
    [] worker_status = "RUNNING" -> "en_progreso"
    [] OTHER -> "fallido"

\* line 200: datetime.now(UTC).isoformat(), the time of the write
ExecutedAt == "datetime.now(UTC).isoformat()"

\* mutant of UpdateRow: the results are written, the status is not
UpdateRowKeepsStatus(r, status, res) ==
  IF res # EmptyMap
    THEN [r EXCEPT !.definition = ("execution_results" :> res) @@
                                  ("executed_at" :> ExecutedAt) @@ r.definition]
    ELSE r

\* WorkerService._update_workflow_status_in_db on an existing row: the
\* status is written; `if results:` (line 197) adds execution_results and
\* executed_at to the stored definition when the results are not empty
UpdateRow(r, status, res) ==
  IF res # EmptyMap
    THEN [r EXCEPT !.status = status,
                   !.definition = ("execution_results" :> res) @@
                                  ("executed_at" :> ExecutedAt) @@ r.definition]
    ELSE [r EXCEPT !.status = status]

\* WorkerService._convert_api_workflow_to_definition, native shape
ConvertApiWorkflow(r) == [name |-> r.name, nodes |-> r.definition["nodes"]]

\* _convert_api_workflow_to_definition raises when an entry of `nodes` is not
\* a mapping (node.get, lines 228-235)
Convertible(r) ==
  \A i \in DOMAIN r.definition["nodes"] : "py" \notin DOMAIN r.definition["nodes"][i]

\* mutant of ExceptStatus: the handler leaves the claimed status in place
ExceptStatusKept == "en_progreso"

\* the exception handler of _execute_workflow writes this status
ExceptStatus == "fallido"

\* ------------------------------------------------------------------ Init
\* no polling thread, no second process, no retry call
ThreadIdle ==
  /\ pending_workflows = << >>
  /\ wfIndex = 1
  /\ stop_flag = FALSE
  /\ is_stopped = FALSE
  /\ thread = "none"
  /\ mainpc = "idle"

ServiceIdle == table = EmptyMap /\ ThreadIdle

WorkersIdle ==
  /\ store = EmptyMap
  /\ workers = EmptyMap
  /\ history = EmptyMap
  /\ runs = EmptyMap

NoRetry == [pc |-> "none"]
RetryIdle == retry = NoRetry

\* a Taskregistry as constructed: nothing registered, no call made
RegistryIdle == taskRegistry = << >> /\ regCalls = << >>

\* no call of _get_pending_workflows_from_db in hand
NoQuery == [pc |-> "none"]
QueryIdle == query = NoQuery

\* no call of _convert_api_workflow_to_definition in hand
NoConversion == [pc |-> "none"]
ConvertIdle == conversion = NoConversion

InstanceIdle == instance = [state |-> FreshState, outcomes |-> << >>]
NoDecorated == [pc |-> "none"]
DecoratedIdle == decorated = NoDecorated
TaskIdle == InstanceIdle /\ DecoratedIdle

NoExecution == [pc |-> "none"]
ExecuteIdle == execution = NoExecution

ComponentsIdle ==
  RetryIdle /\ RegistryIdle /\ QueryIdle /\ ConvertIdle /\ TaskIdle /\ ExecuteIdle

\* one call of _execute_workflow on a pending row
InitWith(nodeLists) ==
  /\ row \in { [id |-> "wf_1", name |-> "wf", status |-> "en_espera",
                definition |-> [nodes |-> nl]] : nl \in nodeLists }
  /\ stats = [total_processed |-> 0, successful |-> 0, failed |-> 0]
  /\ registry = RegisteredTypes
  /\ pc = "poll"
  /\ wf = NoWorkflow
  /\ pending = {}
  /\ passList = << >>
  /\ progress = FALSE
  /\ executed = {}
  /\ node_status = EmptyMap
  /\ results = EmptyMap
  /\ result_keys = << >>
  /\ context = EmptyMap
  /\ workflowRun = NoRow
  /\ nodeRuns = << >>
  /\ wfResult = NoResult
  /\ exc = NoExc
  /\ calls = EmptyMap
  /\ trace = << >>
  /\ ServiceIdle /\ WorkersIdle /\ ComponentsIdle

\* --------------------------------------------------------------- actions
\* the locals of run() and the rows of its run, as before a run
RunLocalsReset ==
  /\ wf' = NoWorkflow
  /\ pending' = {}
  /\ passList' = << >>
  /\ progress' = FALSE
  /\ executed' = {}
  /\ node_status' = EmptyMap
  /\ results' = EmptyMap
  /\ result_keys' = << >>
  /\ context' = EmptyMap
  /\ workflowRun' = NoRow
  /\ nodeRuns' = << >>
  /\ wfResult' = NoResult
  /\ exc' = NoExc
  /\ calls' = EmptyMap
  /\ trace' = << >>

runLocals == <<wf, pending, passList, progress, executed, node_status, results, result_keys, context,
               workflowRun, nodeRuns, wfResult, exc, calls, trace>>

\* _execute_workflow, steps 1-3 up to the first pass of run(): claim the
\* row, convert the definition, create the WorkflowRun row as RUNNING.
ClaimAndStart ==
  /\ pc = "poll"
  /\ Convertible(row)
  /\ row' = UpdateRow(row, "en_progreso", EmptyMap)
  /\ LET d == ConvertApiWorkflow(row)
         ids == DOMAIN d.nodes
     IN /\ wf' = d
        /\ pending' = ids
        /\ passList' = SortedSeq(ids)
        /\ pc' = IF ids = {} THEN "reduce" ELSE "pass"
  /\ progress' = FALSE
  /\ workflowRun' = [status |-> "RUNNING", result_summary |-> EmptyMap]
  /\ UNCHANGED <<serviceVars, workerVars, componentVars>>
  /\ UNCHANGED <<stats, registry, executed, node_status, results, result_keys, context, nodeRuns,
                 wfResult, exc, calls, trace>>

\* run() lines 50-60: the next node of the pass has a failed dependency
SkipNode ==
  /\ pc = "pass" /\ passList # << >>
  /\ LET n == Head(passList)
         node == wf.nodes[n]
     IN /\ DepFailed(node, node_status)
        /\ node_status' = (n :> "SKIPPED") @@ node_status
        /\ results' = (n :> SkippedRecord(node)) @@ results
        /\ result_keys' = DictKeysAfterSet(result_keys, n)
        /\ executed' = executed \cup {n}
        /\ pending' = pending \ {n}
        /\ trace' = Append(trace, [kind |-> "skip", node |-> n])
  /\ progress' = TRUE
  /\ passList' = Tail(passList)
  /\ UNCHANGED <<serviceVars, workerVars, componentVars>>
  /\ UNCHANGED <<row, stats, registry, pc, wf, context, workflowRun, nodeRuns,
                 wfResult, exc, calls>>

\* run() lines 63-105: the next node of the pass is ready and execute_command
\* returns an envelope; the task behaves in one of the ways of `behaviours`
ExecuteNode(behaviours) ==
  /\ pc = "pass" /\ passList # << >>
  /\ LET n == Head(passList)
         node == wf.nodes[n]
     IN /\ ~DepFailed(node, node_status)
        /\ DepsDone(node, executed)
        /\ \E b \in behaviours :
             LET out == ExecuteCommand(registry, TaskCommand(wf.name, node), PyNone, b)
                 task_result == out.value
                 result_data == Get(task_result, "result")
                 status == NodeStatusOf(task_result)
             IN /\ out.kind = "return"
                /\ node_status' = (n :> status) @@ node_status
                /\ results' = (n :> result_data) @@ results
                /\ result_keys' = DictKeysAfterSet(result_keys, n)
                /\ context' = (n :> result_data) @@ context
                /\ nodeRuns' = Append(nodeRuns, NodeRunRow(node, status, result_data))
                /\ calls' = (n :> out) @@ calls
        /\ executed' = executed \cup {n}
        /\ pending' = pending \ {n}
        /\ trace' = Append(trace, [kind |-> "exec", node |-> n])
  /\ progress' = TRUE
  /\ passList' = Tail(passList)
  /\ UNCHANGED <<serviceVars, workerVars, componentVars>>
  /\ UNCHANGED <<row, stats, registry, pc, wf, workflowRun, wfResult, exc>>

\* run() line 74: execute_command raises, the exception leaves run()
ExecuteNodeRaises(behaviours) ==
  /\ pc = "pass" /\ passList # << >>
  /\ LET n == Head(passList)
         node == wf.nodes[n]
     IN /\ ~DepFailed(node, node_status)
        /\ DepsDone(node, executed)
        /\ \E b \in behaviours :
             LET out == ExecuteCommand(registry, TaskCommand(wf.name, node), PyNone, b)
             IN /\ out.kind = "raise"
                /\ exc' = out.exc
                /\ calls' = (n :> out) @@ calls
        /\ trace' = Append(trace, [kind |-> "exec", node |-> n])
  /\ pc' = "except"
  /\ UNCHANGED <<serviceVars, workerVars, componentVars>>
  /\ UNCHANGED <<row, stats, registry, wf, pending, passList, progress, executed,
                 node_status, results, result_keys, context, workflowRun, nodeRuns, wfResult>>

\* run() lines 46-63: the next node of the pass is neither skipped nor ready
DeferNode ==
  /\ pc = "pass" /\ passList # << >>
  /\ LET node == wf.nodes[Head(passList)]
     IN ~DepFailed(node, node_status) /\ ~DepsDone(node, executed)
  /\ passList' = Tail(passList)
  /\ UNCHANGED <<serviceVars, workerVars, componentVars>>
  /\ UNCHANGED <<row, stats, registry, pc, wf, pending, progress, executed, node_status,
                 results, result_keys, context, workflowRun, nodeRuns, wfResult, exc, calls, trace>>

\* run() lines 107-108 and 43-44: end of a pass
PassEnd ==
  /\ pc = "pass" /\ passList = << >>
  /\ IF ~progress
       THEN /\ exc' = CyclicOrBlockedDAG
            /\ pc' = "except"
            /\ UNCHANGED <<passList, progress>>
     ELSE IF pending # {}
       THEN /\ passList' = SortedSeq(pending)
            /\ progress' = FALSE
            /\ UNCHANGED <<pc, exc>>
     ELSE /\ pc' = "reduce"
          /\ UNCHANGED <<passList, progress, exc>>
  /\ UNCHANGED <<serviceVars, workerVars, componentVars>>
  /\ UNCHANGED <<row, stats, registry, wf, pending, executed, node_status, results, result_keys,
                 context, workflowRun, nodeRuns, wfResult, calls, trace>>

\* run() lines 110-128: reduce, update the WorkflowRun row, return
ReduceAndReturn ==
  /\ pc = "reduce"
  /\ LET wf_status == ReduceStatus(node_status)
     IN /\ workflowRun' = [status |-> wf_status, result_summary |-> ResultSummary(results)]
        /\ wfResult' = [workflow_name |-> wf.name, status |-> wf_status, results |-> results]
  /\ pc' = "finalise"
  /\ UNCHANGED <<serviceVars, workerVars, componentVars>>
  /\ UNCHANGED <<row, stats, registry, wf, pending, passList, progress, executed,
                 node_status, results, result_keys, context, nodeRuns, exc, calls, trace>>

\* _execute_workflow steps 4-5: map the status, write it to the row, count
Finalise ==
  /\ pc = "finalise"
  /\ LET api_status == MapWorkerStatusToApi(wfResult.status)
     IN /\ row' = UpdateRow(row, api_status, wfResult.results)
        /\ stats' = [stats EXCEPT
                       !.total_processed = @ + 1,
                       !.successful = IF api_status = "completado" THEN @ + 1 ELSE @,
                       !.failed = IF api_status = "completado" THEN @ ELSE @ + 1]
  /\ pc' = "done"
  /\ UNCHANGED <<serviceVars, workerVars, componentVars>>
  /\ UNCHANGED <<registry, wf, pending, passList, progress, executed, node_status,
                 results, result_keys, context, workflowRun, nodeRuns, wfResult, exc, calls, trace>>

\* mutant of ExceptHandler: the handler marks the row and lets the exception
\* go on to the except of _poll_loop (line 383), which ends the tick
ExceptHandlerReraises ==
  /\ pc = "except"
  /\ row' = NoRow
  /\ table' = (row.id :> UpdateRow(row, ExceptStatus, EmptyMap)) @@ table
  /\ stats' = [stats EXCEPT !.failed = @ + 1, !.total_processed = @ + 1]
  /\ pc' = "while"
  /\ RunLocalsReset
  /\ UNCHANGED <<registry, pending_workflows, wfIndex, stop_flag, is_stopped,
                 thread, mainpc, workerVars, componentVars>>

\* _execute_workflow lines 341-354: an exception left run()
ExceptHandler ==
  /\ pc = "except"
  /\ row' = UpdateRow(row, ExceptStatus, EmptyMap)
  /\ stats' = [stats EXCEPT !.failed = @ + 1, !.total_processed = @ + 1]
  /\ pc' = "done"
  /\ UNCHANGED <<serviceVars, workerVars, componentVars>>
  /\ UNCHANGED <<registry, wf, pending, passList, progress, executed, node_status,
                 results, result_keys, context, workflowRun, nodeRuns, wfResult, exc, calls, trace>>

\* Spec: small definitions, tasks of every behaviour, registered and
\* unregistered task types
Init == InitWith(NodeLists(MaxTaskNodes, MaxTaskEdges, NodeTypes))

Next ==
  \/ ClaimAndStart
  \/ SkipNode
  \/ ExecuteNode(TaskBehaviours)
  \/ ExecuteNodeRaises(TaskBehaviours)
  \/ DeferNode
  \/ PassEnd
  \/ ReduceAndReturn
  \/ Finalise
  \/ ExceptHandler

Spec == Init /\ [][Next]_vars

\* run() is one thread of control: a step that can be taken is taken
FairSpec == Spec /\ WF_vars(Next)

\* SpecDag: larger definitions of registered task types whose tasks succeed
\* or fail
InitDag == InitWith(NodeLists(MaxNodes, MaxEdges, {"http_get"}))

NextDag ==
  \/ ClaimAndStart
  \/ SkipNode
  \/ ExecuteNode(CoreBehaviours)
  \/ DeferNode
  \/ PassEnd
  \/ ReduceAndReturn
  \/ Finalise
  \/ ExceptHandler

SpecDag == InitDag /\ [][NextDag]_vars

\* ======================================================================
\* The polling thread (_poll_loop) and the thread calling start() and stop()
\* ======================================================================
\* no _execute_workflow call in progress
EngineIdle ==
  /\ row = NoRow
  /\ stats = [total_processed |-> 0, successful |-> 0, failed |-> 0]
  /\ registry = RegisteredTypes
  /\ pc = "idle"
  /\ wf = NoWorkflow
  /\ pending = {}
  /\ passList = << >>
  /\ progress = FALSE
  /\ executed = {}
  /\ node_status = EmptyMap
  /\ results = EmptyMap
  /\ result_keys = << >>
  /\ context = EmptyMap
  /\ workflowRun = NoRow
  /\ nodeRuns = << >>
  /\ wfResult = NoResult
  /\ exc = NoExc
  /\ calls = EmptyMap
  /\ trace = << >>

\* the definitions of the rows of SpecService: no node, a node that
\* depends on itself, a chain of two nodes (its first node runs as a single
\* node does), and an entry of `nodes` that is no mapping
OneNode(type, deps) == [id |-> 1, type |-> type, depends_on |-> deps]
ServiceNodeLists ==
  { << >>,
    <<OneNode("http_get", {1})>>,
    <<OneNode("http_get", {}), [id |-> 2, type |-> "http_get", depends_on |-> {1}]>>,
    <<PyStr>> }

\* _get_pending_workflows_from_db: the ids of the rows with status en_espera
PendingIds(t) == SortedSeq({id \in DOMAIN t : t[id].status = "en_espera"})

\* mutant of StopIsNoop: the guard is missing
StopIsNoopNever == FALSE

\* line 431: stop() returns at once when _is_stopped is set
StopIsNoop == is_stopped

\* the service after construction, with the rows a producer stored
InitService ==
  /\ table \in UNION { { [i \in 1..k |-> [id |-> i, name |-> "wf", status |-> "en_espera",
                                            definition |-> [nodes |-> nls[i]]]]
                          : nls \in [1..k -> ServiceNodeLists] }
                        : k \in 0..MaxRows }
  /\ ThreadIdle /\ EngineIdle /\ WorkersIdle /\ ComponentsIdle

\* start(): a new polling thread unless one is alive
Start ==
  /\ mainpc # "join"
  /\ thread # "alive"
  /\ stop_flag' = FALSE
  /\ thread' = "alive"
  /\ pc' = "while"
  /\ pending_workflows' = << >>
  /\ wfIndex' = 1
  /\ UNCHANGED <<row, stats, registry, runLocals, table, is_stopped, mainpc, workerVars,
                 componentVars>>

\* stop() lines 431-446: a no-op when already stopped, otherwise set both
\* flags and join the thread for at most 5 seconds
Stop ==
  /\ mainpc # "join"
  /\ IF StopIsNoop
       THEN /\ mainpc' = "stopped_again"
            /\ UNCHANGED <<is_stopped, stop_flag>>
       ELSE /\ is_stopped' = TRUE
            /\ stop_flag' = TRUE
            /\ mainpc' = "join"
  /\ UNCHANGED <<engineVars, table, pending_workflows, wfIndex, thread, workerVars,
                 componentVars>>

\* stop() lines 446-459: join has returned, because the thread ended or
\* because the 5 seconds are over; the registry is cleared, the store
\* connections are disposed
StopCleanup ==
  /\ mainpc = "join"
  /\ registry' = {}
  /\ mainpc' = "stopped"
  /\ UNCHANGED <<row, stats, pc, runLocals, table, pending_workflows, wfIndex, stop_flag,
                 is_stopped, thread, workerVars, componentVars>>

\* _poll_loop lines 365-375: the flag is not set, the pending rows are read
LoopTick ==
  /\ thread = "alive" /\ pc = "while"
  /\ ~stop_flag
  /\ pending_workflows' = PendingIds(table)
  /\ wfIndex' = 1
  /\ pc' = "for"
  /\ UNCHANGED <<row, stats, registry, runLocals, table, stop_flag, is_stopped, thread,
                 mainpc, workerVars, componentVars>>

\* the same with a store that fails: _get_pending_workflows_from_db logs
\* the error and returns [] (lines 148-150)
LoopTickStoreFails ==
  /\ thread = "alive" /\ pc = "while"
  /\ ~stop_flag
  /\ pending_workflows' = << >>
  /\ wfIndex' = 1
  /\ pc' = "for"
  /\ UNCHANGED <<row, stats, registry, runLocals, table, stop_flag, is_stopped, thread,
                 mainpc, workerVars, componentVars>>

\* _poll_loop line 365: the flag is set, the loop and its thread end
LoopExit ==
  /\ thread = "alive" /\ pc = "while"
  /\ stop_flag
  /\ thread' = "dead"
  /\ pc' = "idle"
  /\ UNCHANGED <<row, stats, registry, runLocals, table, pending_workflows, wfIndex,
                 stop_flag, is_stopped, mainpc, workerVars,
                 componentVars>>

\* _poll_loop lines 378-387: the for loop takes the next row of the list, or
\* the tick is over and the loop sleeps
ForNext ==
  /\ thread = "alive" /\ pc = "for"
  /\ IF wfIndex <= Len(pending_workflows)
       THEN /\ row' = table[pending_workflows[wfIndex]]
            /\ table' = [id \in DOMAIN table \ {pending_workflows[wfIndex]} |-> table[id]]
            /\ pc' = "poll"
       ELSE /\ pc' = "while"
            /\ UNCHANGED <<row, table>>
  /\ UNCHANGED <<stats, registry, runLocals, pending_workflows, wfIndex,
                 stop_flag, is_stopped, thread, mainpc, workerVars, componentVars>>

\* _execute_workflow lines 301-308 and 341: the row is claimed and the
\* conversion of its definition raises
ClaimConvertRaises ==
  /\ pc = "poll"
  /\ ~Convertible(row)
  /\ row' = UpdateRow(row, "en_progreso", EmptyMap)
  /\ exc' = "AttributeError"
  /\ pc' = "except"
  /\ UNCHANGED <<stats, registry, wf, pending, passList, progress, executed, node_status,
                 results, result_keys, context, workflowRun, nodeRuns, wfResult, calls, trace>>
  /\ UNCHANGED <<serviceVars, workerVars, componentVars>>

\* _execute_workflow lines 303-305: the store fails at the claim,
\* _update_workflow_status_in_db returns False and the row is left alone
ClaimFails ==
  /\ pc = "poll"
  /\ pc' = "done"
  /\ UNCHANGED <<row, stats, registry, runLocals, serviceVars, workerVars, componentVars>>

\* _poll_loop line 379: _execute_workflow has returned, its locals are gone
EndWorkflow ==
  /\ thread = "alive" /\ pc = "done"
  /\ table' = (row.id :> row) @@ table
  /\ row' = NoRow
  /\ wfIndex' = wfIndex + 1
  /\ pc' = "for"
  /\ RunLocalsReset
  /\ UNCHANGED <<stats, registry, pending_workflows, stop_flag, is_stopped,
                 thread, mainpc, workerVars, componentVars>>

NextService ==
  \/ Start
  \/ Stop
  \/ StopCleanup
  \/ LoopTick
  \/ LoopTickStoreFails
  \/ LoopExit
  \/ ForNext
  \/ ClaimAndStart
  \/ ClaimConvertRaises
  \/ ClaimFails
  \/ SkipNode
  \/ ExecuteNode(CoreBehaviours)
  \/ ExecuteNodeRaises(CoreBehaviours)
  \/ DeferNode
  \/ PassEnd
  \/ ReduceAndReturn
  \/ Finalise
  \/ ExceptHandler
  \/ EndWorkflow

SpecService == InitService /\ [][NextService]_vars

\* the steps of the polling thread inside a tick: the thread is scheduled
\* and every call it makes returns, so a tick that can go on does go on
TickStep ==
  \/ ForNext
  \/ ClaimAndStart
  \/ ClaimConvertRaises
  \/ SkipNode
  \/ ExecuteNode(CoreBehaviours)
  \/ ExecuteNodeRaises(CoreBehaviours)
  \/ DeferNode
  \/ PassEnd
  \/ ReduceAndReturn
  \/ Finalise
  \/ ExceptHandler
  \/ EndWorkflow

FairSpecService == SpecService /\ WF_vars(TickStep)

\* ======================================================================
\* Several WorkerService processes on one shared store.  One action per
\* store access of a process; what run() does between the claim and the
\* final write touches the shared rows nowhere and is one of the outcomes
\* the executor has: a workflow status, or an exception.
\* ======================================================================
Workers == 1..MaxWorkers
RunOutcomes ==
  { [kind |-> "return", status |-> st] : st \in {"SUCCESS", "PARTIAL_SUCCESS", "FAILED"} }
    \cup { [kind |-> "raise"] }

\* the status _execute_workflow writes at its end for an outcome of run()
FinalStatus(outcome) ==
  IF outcome.kind = "return" THEN MapWorkerStatusToApi(outcome.status) ELSE ExceptStatus

\* _update_workflow_status_in_db returns True when the row exists (lines
\* 186-208); the status the row has plays no part
UpdateSucceeds(rows, id) == id \in DOMAIN rows

InitWorkers ==
  /\ store \in { [i \in 1..k |-> [id |-> i, name |-> "wf", status |-> "en_espera",
                                   definition |-> [nodes |-> << >>]]] : k \in 1..MaxRows }
  /\ workers = [w \in Workers |-> [pc |-> "while", pending_workflows |-> << >>, wfIndex |-> 1]]
  /\ history = [id \in DOMAIN store |-> << >>]
  /\ runs = [id \in DOMAIN store |-> << >>]
  /\ EngineIdle /\ ServiceIdle /\ ComponentsIdle

\* _poll_loop lines 365-375 of process w: read the pending rows
WorkerPoll(w) ==
  /\ workers[w].pc = "while"
  /\ workers' = [workers EXCEPT ![w] = [pc |-> "for", pending_workflows |-> PendingIds(store),
                                        wfIndex |-> 1]]
  /\ UNCHANGED <<store, history, runs, engineVars, serviceVars, componentVars>>

\* _poll_loop line 378 of process w: the list of the tick is exhausted
WorkerTickEnd(w) ==
  /\ workers[w].pc = "for"
  /\ workers[w].wfIndex > Len(workers[w].pending_workflows)
  /\ workers' = [workers EXCEPT ![w].pc = "while"]
  /\ UNCHANGED <<store, history, runs, engineVars, serviceVars, componentVars>>

\* _execute_workflow lines 301-312 of process w: the claim write, and, when
\* it returned True, the start of the execution
WorkerClaim(w) ==
  /\ workers[w].pc = "for"
  /\ workers[w].wfIndex <= Len(workers[w].pending_workflows)
  /\ LET id == workers[w].pending_workflows[workers[w].wfIndex]
     IN IF UpdateSucceeds(store, id)
          THEN /\ store' = [store EXCEPT ![id] = UpdateRow(@, "en_progreso", EmptyMap)]
               /\ history' = [history EXCEPT ![id] = Append(@, "en_progreso")]
               /\ runs' = [runs EXCEPT ![id] = Append(@, w)]
               /\ workers' = [workers EXCEPT ![w].pc = "run"]
          ELSE /\ workers' = [workers EXCEPT ![w].wfIndex = @ + 1]
               /\ UNCHANGED <<store, history, runs>>
  /\ UNCHANGED <<engineVars, serviceVars, componentVars>>

\* _execute_workflow lines 312-354 of process w: run() has ended, the final
\* status is written
WorkerFinalise(w) ==
  /\ workers[w].pc = "run"
  /\ \E outcome \in RunOutcomes :
       LET id == workers[w].pending_workflows[workers[w].wfIndex]
       IN /\ store' = [store EXCEPT ![id] = UpdateRow(@, FinalStatus(outcome), EmptyMap)]
          /\ history' = [history EXCEPT ![id] = Append(@, FinalStatus(outcome))]
  /\ workers' = [workers EXCEPT ![w].pc = "for", ![w].wfIndex = @ + 1]
  /\ UNCHANGED <<runs, engineVars, serviceVars, componentVars>>

NextWorkers ==
  \/ \E w \in Workers : WorkerPoll(w)
  \/ \E w \in Workers : WorkerTickEnd(w)
  \/ \E w \in Workers : WorkerClaim(w)
  \/ \E w \in Workers : WorkerFinalise(w)

SpecWorkers == InitWorkers /\ [][NextWorkers]_vars

\* ======================================================================
\* Taskregistry (registry.py) on its own: any sequence of register, create,
\* list and clear calls.  _registry is a dict, kept here as its entries in
\* insertion order.
\* ======================================================================
\* FactoryM.py TaskFactoryDirector.All_posible_tasks (its keys)
All_posible_tasks == {"http_get", "validate_csv", "save_db", "notify_mock", "transform_simple"}

\* the class of TaskFactoryDirector.create(task_name)
TaskClass(task_name) ==
  CASE task_name = "http_get" -> "HttpGetTask"
    [] task_name = "validate_csv" -> "ValidateCSVTask"
    [] task_name = "save_db" -> "SaveDBTask"
    [] task_name = "notify_mock" -> "NotifyMockTask"
    [] task_name = "transform_simple" -> "TransformSimpleTask"

\* the names the calls are made with: known task types and one that is none
RegistryArgs == {"http_get", "notify_mock", "save_db", "invalid_task"}

NotATask == "ValueError: no esta definida como tarea"
AlreadyRegistered == "ValueError: ya esta registrado"

RegistryKeys(reg) == {reg[i].type : i \in DOMAIN reg}
RegistryValue(reg, t) == (CHOOSE i \in DOMAIN reg : reg[i].type = t)

\* mutant of RegistryRegister: a second registration replaces the entry
\* and raises nothing
RegistryRegisterOverwrites(reg, task_name) ==
  IF task_name \notin All_posible_tasks
    THEN [kind |-> "raise", exc |-> NotATask, registry |-> reg]
  ELSE IF task_name \in RegistryKeys(reg)
    THEN [kind |-> "return", registry |-> reg]
  ELSE [kind |-> "return",
        registry |-> Append(reg, [type |-> task_name, cls |-> TaskClass(task_name)])]

\* Taskregistry.register: outcome and the registry after the call
RegistryRegister(reg, task_name) ==
  IF task_name \notin All_posible_tasks
    THEN [kind |-> "raise", exc |-> NotATask, registry |-> reg]
  ELSE IF task_name \in RegistryKeys(reg)
    THEN [kind |-> "raise", exc |-> AlreadyRegistered, registry |-> reg]
  ELSE [kind |-> "return",
        registry |-> Append(reg, [type |-> task_name, cls |-> TaskClass(task_name)])]

\* mutant of RegistryList: the keys in place of the values
RegistryListKeys(reg) == [i \in DOMAIN reg |-> reg[i].type]

\* Taskregistry.list: list(self._registry.values())
RegistryList(reg) == [i \in DOMAIN reg |-> reg[i].cls]

InitRegistry ==
  /\ taskRegistry = << >>
  /\ regCalls = << >>
  /\ EngineIdle /\ ServiceIdle /\ WorkersIdle
  /\ RetryIdle /\ QueryIdle /\ ConvertIdle /\ TaskIdle /\ ExecuteIdle

registryFrame == <<engineVars, serviceVars, workerVars, retryVars, queryVars, convertVars, taskVars, executeVars>>

Register(task_name) ==
  /\ Len(regCalls) < MaxRegistryCalls
  /\ LET out == RegistryRegister(taskRegistry, task_name)
     IN /\ taskRegistry' = out.registry
        /\ regCalls' = Append(regCalls,
             IF out.kind = "raise"
               THEN [op |-> "register", arg |-> task_name, kind |-> "raise", exc |-> out.exc]
               ELSE [op |-> "register", arg |-> task_name, kind |-> "return"])
  /\ UNCHANGED registryFrame

\* Taskregistry.create: a new instance of the registered class
Create(task_type) ==
  /\ Len(regCalls) < MaxRegistryCalls
  /\ LET out == RegistryCreate(RegistryKeys(taskRegistry), task_type)
     IN regCalls' = Append(regCalls,
          IF out.kind = "raise"
            THEN [op |-> "create", arg |-> task_type, kind |-> "raise", exc |-> out.exc]
            ELSE [op |-> "create", arg |-> task_type, kind |-> "return",
                  value |-> [instance_of |-> taskRegistry[RegistryValue(taskRegistry, task_type)].cls]])
  /\ UNCHANGED <<taskRegistry, registryFrame>>

List ==
  /\ Len(regCalls) < MaxRegistryCalls
  /\ regCalls' = Append(regCalls, [op |-> "list", arg |-> "none", kind |-> "return",
                                    value |-> RegistryList(taskRegistry)])
  /\ UNCHANGED <<taskRegistry, registryFrame>>

Clear ==
  /\ Len(regCalls) < MaxRegistryCalls
  /\ taskRegistry' = << >>
  /\ regCalls' = Append(regCalls, [op |-> "clear", arg |-> "none", kind |-> "return"])
  /\ UNCHANGED registryFrame

NextRegistry ==
  \/ \E t \in RegistryArgs : Register(t)
  \/ \E t \in RegistryArgs : Create(t)
  \/ List
  \/ Clear

SpecRegistry == InitRegistry /\ [][NextRegistry]_vars

\* ======================================================================
\* WorkerService._get_pending_workflows_from_db, one call: the select, then
\* one action per iteration of the loop over the records.
\* ======================================================================
\* the `definition` column of a stored row: no text, the text of a JSON
\* object, or a text json.loads cannot read
StoredDefinitions == {"None", "json", "not json"}
StoredStatuses == {"en_espera", "completado"}

JSONDecodeError == "JSONDecodeError"

\* line 141: json.loads(record.definition) if record.definition else {}
LoadDefinition(text) ==
  CASE text = "None" -> Returns(PyDict(EmptyMap))
    [] text = "json" -> Returns(PyDict([nodes |-> << >>]))
    [] OTHER -> Raises(JSONDecodeError)

\* lines 132-133: the rows whose status is en_espera, in table order
RECURSIVE SelectPending(_)
SelectPending(rows) ==
  IF rows = << >> THEN << >>
  ELSE IF rows[1].status = "en_espera"
    THEN <<rows[1]>> \o SelectPending(Tail(rows))
  ELSE SelectPending(Tail(rows))

InitPending ==
  /\ \E k \in 0..MaxStoredRows :
       \E st \in [1..k -> StoredStatuses], df \in [1..k -> StoredDefinitions] :
         query = [pc |-> "select",
                  rows |-> [i \in 1..k |-> [id |-> i, status |-> st[i], definition |-> df[i]]],
                  records |-> << >>, workflows |-> << >>, result |-> << >>]
  /\ EngineIdle /\ ServiceIdle /\ WorkersIdle
  /\ RetryIdle /\ RegistryIdle /\ ConvertIdle /\ TaskIdle /\ ExecuteIdle

pendingFrame == <<engineVars, serviceVars, workerVars, retryVars, registryVars, convertVars, taskVars, executeVars>>

\* lines 132-136
QuerySelect ==
  /\ query.pc = "select"
  /\ query' = [query EXCEPT !.pc = "for", !.records = SelectPending(query.rows)]
  /\ UNCHANGED pendingFrame

\* lines 137-144: an iteration whose definition is read
QueryAppend ==
  /\ query.pc = "for" /\ query.records # << >>
  /\ LET record == Head(query.records)
         loaded == LoadDefinition(record.definition)
     IN /\ loaded.kind = "return"
        /\ query' = [query EXCEPT
                       !.records = Tail(@),
                       !.workflows = Append(@, [id |-> record.id, status |-> record.status,
                                                definition |-> loaded.value])]
  /\ UNCHANGED pendingFrame

\* lines 141, 148-150: json.loads raises inside the loop; the except around
\* the whole block returns []
QueryLoadRaises ==
  /\ query.pc = "for" /\ query.records # << >>
  /\ LoadDefinition(Head(query.records).definition).kind = "raise"
  /\ query' = [query EXCEPT !.pc = "returned", !.result = << >>]
  /\ UNCHANGED pendingFrame

\* line 146
QueryReturn ==
  /\ query.pc = "for" /\ query.records = << >>
  /\ query' = [query EXCEPT !.pc = "returned", !.result = query.workflows]
  /\ UNCHANGED pendingFrame

NextPending ==
  \/ QuerySelect
  \/ QueryAppend
  \/ QueryLoadRaises
  \/ QueryReturn

SpecPending == InitPending /\ [][NextPending]_vars

\* ======================================================================
\* WorkerService._convert_api_workflow_to_definition and _map_step_type, one
\* call.  A Python string is the sequence of its characters, so that lower()
\* and replace() are computed character by character.
\* ======================================================================
UpperCase == <<"A", "B", "C", "D", "E", "F", "G", "H", "I", "J", "K", "L", "M", "N", "O", "P", "Q", "R", "S", "T", "U", "V", "W", "X", "Y", "Z">>
LowerCase == <<"a", "b", "c", "d", "e", "f", "g", "h", "i", "j", "k", "l", "m", "n", "o", "p", "q", "r", "s", "t", "u", "v", "w", "x", "y", "z">>

\* str.lower() on one character
LowerChar(c) ==
  IF \E i \in DOMAIN UpperCase : UpperCase[i] = c
    THEN LowerCase[CHOOSE i \in DOMAIN UpperCase : UpperCase[i] = c]
    ELSE c

\* api_type.lower()
StrLower(str) == [i \in DOMAIN str |-> LowerChar(str[i])]
\* .replace(" ", "_")
StrReplaceSpaces(str) == [i \in DOMAIN str |-> IF str[i] = " " THEN "_" ELSE str[i]]

\* the `mapping` dict of _map_step_type (lines 262-268), as pairs
StepTypeMapping ==
  { <<<<"H", "T", "T", "P", "S", " ", "G", "E", "T", " ", "R", "e", "q", "u", "e", "s", "t">>,
      <<"h", "t", "t", "p", "_", "g", "e", "t">>>>,
    <<<<"V", "a", "l", "i", "d", "a", "t", "e", " ", "C", "S", "V", " ", "F", "i", "l", "e">>,
      <<"v", "a", "l", "i", "d", "a", "t", "e", "_", "c", "s", "v">>>>,
    <<<<"S", "i", "m", "p", "l", "e", " ", "T", "r", "a", "n", "s", "f", "o", "r", "m">>,
      <<"t", "r", "a", "n", "s", "f", "o", "r", "m", "_", "s", "i", "m", "p", "l", "e">>>>,
    <<<<"S", "a", "v", "e", " ", "t", "o", " ", "D", "a", "t", "a", "b", "a", "s", "e">>,
      <<"s", "a", "v", "e", "_", "d", "b">>>>,
    <<<<"M", "o", "c", "k", " ", "N", "o", "t", "i", "f", "i", "c", "a", "t", "i", "o", "n">>,
      <<"n", "o", "t", "i", "f", "y", "_", "m", "o", "c", "k">>>> }

\* names that are no key of the mapping: the empty string, a name with
\* capitals and a space, a canonical type, and a display name in another case
OtherStepNames ==
  { << >>,
    <<"M", "y", " ", "T", "a", "s", "k">>,
    <<"h", "t", "t", "p", "_", "g", "e", "t">>,
    <<"S", "i", "m", "p", "l", "e", " ", "t", "r", "a", "n", "s", "f", "o", "r", "m">> }

\* mutant of MapStepType: an unknown name is lowercased, its spaces are kept
MapStepTypeKeepsSpaces(api_type) ==
  IF \E m \in StepTypeMapping : m[1] = api_type
    THEN (CHOOSE m \in StepTypeMapping : m[1] = api_type)[2]
    ELSE StrLower(api_type)

\* _map_step_type
MapStepType(api_type) ==
  IF \E m \in StepTypeMapping : m[1] = api_type
    THEN (CHOOSE m \in StepTypeMapping : m[1] = api_type)[2]
    ELSE StrReplaceSpaces(StrLower(api_type))

\* f"step_{i}"
StepId(i) == <<"step_", i>>

\* lines 238-251: the nodes built from the steps of a legacy definition
LegacyNodes(steps) ==
  [k \in DOMAIN steps |->
     [id |-> StepId(k - 1),
      type |-> MapStepType(IF "type" \in DOMAIN steps[k] THEN steps[k]["type"] ELSE << >>),
      params |-> IF "args" \in DOMAIN steps[k] THEN steps[k]["args"] ELSE EmptyMap,
      depends_on |-> IF k - 1 > 0 THEN <<StepId(k - 2)>> ELSE << >>]]

\* lines 225-236: the nodes built from the entries of `nodes`
NativeNodes(nodes_data) ==
  [k \in DOMAIN nodes_data |->
     [id |-> Get(nodes_data[k], "id"),
      type |-> Get(nodes_data[k], "type"),
      params |-> IF "params" \in DOMAIN nodes_data[k] THEN nodes_data[k]["params"] ELSE EmptyMap,
      depends_on |-> IF "depends_on" \in DOMAIN nodes_data[k]
                       THEN nodes_data[k]["depends_on"] ELSE << >>]]

\* lines 222-256
ConvertDefinition(api_workflow) ==
  LET definition == api_workflow.definition
  IN [name |-> api_workflow.name,
      id |-> api_workflow.id,
      nodes |-> IF "nodes" \in DOMAIN definition
                  THEN NativeNodes(definition["nodes"])
                  ELSE LegacyNodes(IF "steps" \in DOMAIN definition
                                     THEN definition["steps"] ELSE << >>)]

\* the steps a legacy definition may hold: any name, with or without args
StepArgs == [url |-> "u"]
LegacySteps ==
  LET names == {m[1] : m \in StepTypeMapping} \cup OtherStepNames
  IN { [type |-> n, args |-> StepArgs] : n \in names }
       \cup { [type |-> n] : n \in names }
       \cup { [args |-> StepArgs] }

\* the entries a native definition may hold: complete, or with the optional
\* keys left out
NativeEntries ==
  { [id |-> "A", type |-> "http_get", params |-> StepArgs, depends_on |-> << >>],
    [id |-> "B", type |-> "notify_mock", params |-> EmptyMap, depends_on |-> <<"A">>],
    [id |-> "C", type |-> "save_db"] }

SeqsUpTo(S, n) == UNION { [1..k -> S] : k \in 0..n }

InitConvert ==
  /\ \E definition \in
         { [steps |-> st] : st \in SeqsUpTo(LegacySteps, MaxSteps) }
           \cup { [nodes |-> nd] : nd \in SeqsUpTo(NativeEntries, MaxSteps) }
           \cup { [nodes |-> nd, steps |-> <<[type |-> << >>]>>] :
                    nd \in SeqsUpTo(NativeEntries, MaxSteps) }
           \cup { EmptyMap } :
       conversion = [pc |-> "call",
                     api_workflow |-> [id |-> "wf_1", name |-> "wf", status |-> "en_espera",
                                       definition |-> definition]]
  /\ EngineIdle /\ ServiceIdle /\ WorkersIdle
  /\ RetryIdle /\ RegistryIdle /\ QueryIdle /\ TaskIdle /\ ExecuteIdle

Convert ==
  /\ conversion.pc = "call"
  /\ conversion' = [pc |-> "done", api_workflow |-> conversion.api_workflow,
                    workflow_def |-> ConvertDefinition(conversion.api_workflow)]
  /\ UNCHANGED <<engineVars, serviceVars, workerVars, retryVars, registryVars, queryVars, taskVars, executeVars>>

NextConvert == Convert

SpecConvert == InitConvert /\ [][NextConvert]_vars

\* ======================================================================
\* ITask.run with its hooks, on one instance (strategies/base.py)
\* ======================================================================
\* what the hooks and steps of a task do in one call of run: before and
\* after may raise as well
HookBehaviours ==
  [before : {"ok", "raise"}, validate : {"ok", "raise"},
   execute : {Returns(PyDict([success |-> TRUE])), Raises("TaskError")},
   after : {"ok", "raise"}, on_error : {"dict", "None", "raise"}]

\* the hook exceptions run catches and logs as warnings (lines 69-73, 88-92)
HookWarnings(h) ==
  (IF h.before = "raise" THEN {"before"} ELSE {})
    \cup (IF TaskFailure(h) = "none" /\ h.after = "raise" THEN {"after"} ELSE {})

\* ITask.run (lines 66-118) called on an instance whose _execution_state is
\* `state`: started is set, an exception of before is logged, validate and
\* execute run; completed is set before after is called and an exception of
\* after is logged; on an exception of validate or execute failed and error
\* are set and on_error decides between its value and the re-raise.  The
\* state is only ever written, never reset.
ITaskRunOnInstance(state, h) ==
  LET failure == TaskFailure(h)
      started == [state EXCEPT !.started = TRUE]
  IN IF failure = "none"
       THEN [kind |-> "return", value |-> h.execute.value,
             state |-> [started EXCEPT !.completed = TRUE],
             steps |-> TaskSteps(h), warnings |-> HookWarnings(h), behaviour |-> h]
     ELSE LET failed == [started EXCEPT !.failed = TRUE, !.error = failure]
          IN IF h.on_error = "dict"
               THEN [kind |-> "return", value |-> OnErrorResult(failure),
                     state |-> failed, steps |-> TaskSteps(h),
                     warnings |-> HookWarnings(h), behaviour |-> h]
             ELSE [kind |-> "raise", exc |-> failure, state |-> failed,
                   steps |-> TaskSteps(h), warnings |-> HookWarnings(h),
                   behaviour |-> h]

InitTask ==
  /\ EngineIdle /\ ServiceIdle /\ WorkersIdle /\ ComponentsIdle

taskFrame == <<engineVars, serviceVars, workerVars, retryVars, registryVars, queryVars, convertVars, decoratedVars, executeVars>>

\* run is called on the instance: the first call, or the next call that
\* RetryDecorator.run (decorador.py line 200) makes on the same wrapped
\* instance after a call that raised
RunCallable ==
  /\ Len(instance.outcomes) < MaxRuns
  /\ IF instance.outcomes = << >> THEN TRUE
     ELSE instance.outcomes[Len(instance.outcomes)].kind = "raise"

\* a call of run that returns
TaskRunReturns ==
  /\ RunCallable
  /\ \E h \in HookBehaviours :
       LET out == ITaskRunOnInstance(instance.state, h)
       IN /\ out.kind = "return"
          /\ instance' = [state |-> out.state, outcomes |-> Append(instance.outcomes, out)]
  /\ UNCHANGED taskFrame

\* a call of run that raises
TaskRunRaises ==
  /\ RunCallable
  /\ \E h \in HookBehaviours :
       LET out == ITaskRunOnInstance(instance.state, h)
       IN /\ out.kind = "raise"
          /\ instance' = [state |-> out.state, outcomes |-> Append(instance.outcomes, out)]
  /\ UNCHANGED taskFrame

NextTask ==
  \/ TaskRunReturns
  \/ TaskRunRaises

SpecTask == InitTask /\ [][NextTask]_vars


\* ======================================================================
\* TimeDecorator.run / LoggingDecorator.run (decorador.py), one call
\* ======================================================================
\* the decorator lists of TASK_DECORATOR_MAP and each decorator alone
DecoratorStacks ==
  {<<"TimeDecorator">>, <<"LoggingDecorator">>, <<"TimeDecorator", "LoggingDecorator">>}

\* what the wrapped task does: the behaviours of the task contract, and
\* results json cannot encode
DecoratedBehaviours ==
  TaskBehaviours \cup
  { [validate |-> "ok", execute |-> Returns(PyObject), on_error |-> "None"],
    [validate |-> "ok",
     execute |-> Returns(PyDict([success |-> TRUE, handle |-> "object"])),
     on_error |-> "dict"] }

\* the params of the call: a JSON mapping, one with a sensitive key, one
\* holding an object json cannot encode
DecoratedParams ==
  { PyDict(EmptyMap), PyDict([password |-> "str"]), PyDict([handle |-> "object"]) }

InitDecorated ==
  /\ decorated \in { [pc |-> "call", decs |-> decs, behaviour |-> b, params |-> params]
                      : decs \in DecoratorStacks, b \in DecoratedBehaviours,
                        params \in DecoratedParams }
  /\ EngineIdle /\ ServiceIdle /\ WorkersIdle
  /\ RetryIdle /\ RegistryIdle /\ QueryIdle /\ ConvertIdle /\ InstanceIdle /\ ExecuteIdle

decoratedFrame == <<engineVars, serviceVars, workerVars, retryVars, registryVars, queryVars, convertVars, instanceVars, executeVars>>

\* the outcome of the undecorated task and of the decorated one
DecoratedOutcome(d) ==
  [pc |-> "done", decs |-> d.decs, behaviour |-> d.behaviour, params |-> d.params,
   inner |-> ITaskRun(d.behaviour, EmptyMap),
   out |-> DecoratedRun(d.decs, d.behaviour, EmptyMap, d.params)]

\* run of the outermost decorator returns
DecoratedCallReturns ==
  /\ decorated.pc = "call"
  /\ DecoratedOutcome(decorated).out.kind = "return"
  /\ decorated' = DecoratedOutcome(decorated)
  /\ UNCHANGED decoratedFrame

\* run of the outermost decorator raises
DecoratedCallRaises ==
  /\ decorated.pc = "call"
  /\ DecoratedOutcome(decorated).out.kind = "raise"
  /\ decorated' = DecoratedOutcome(decorated)
  /\ UNCHANGED decoratedFrame

NextDecorated ==
  \/ DecoratedCallReturns
  \/ DecoratedCallRaises

SpecDecorated == InitDecorated /\ [][NextDecorated]_vars


\* ======================================================================
\* WorkerService._execute_workflow, call after call, on a store whose
\* accesses may fail.  What run() does is one of its outcomes.
\* ======================================================================
\* mutant of UpdateWorkflowStatusInDb: a missing row is inserted
UpdateWorkflowStatusUpserts(rows, id, status, res, storeOk) ==
  IF ~storeOk THEN [returned |-> FALSE, rows |-> rows]
  ELSE IF id \notin DOMAIN rows
    THEN [returned |-> TRUE,
          rows |-> (id :> [id |-> id, name |-> "wf", status |-> status,
                           definition |-> [nodes |-> << >>]]) @@ rows]
  ELSE [returned |-> TRUE, rows |-> [rows EXCEPT ![id] = UpdateRow(@, status, res)]]

\* WorkerService._update_workflow_status_in_db (lines 183-212): False when
\* the session raises (line 210) or no row has the id (lines 188-190), else
\* the row is written and the answer is True
UpdateWorkflowStatusInDb(rows, id, status, res, storeOk) ==
  IF ~storeOk THEN [returned |-> FALSE, rows |-> rows]
  ELSE IF id \notin DOMAIN rows THEN [returned |-> FALSE, rows |-> rows]
  ELSE [returned |-> TRUE, rows |-> [rows EXCEPT ![id] = UpdateRow(@, status, res)]]

\* mutant of CountProcessed: a failed final write is not counted
CountProcessedWrittenOnly(st, written, api_status) ==
  IF ~written THEN st
  ELSE [st EXCEPT !.total_processed = @ + 1,
                     !.successful = IF api_status = "completado" THEN @ + 1 ELSE @,
                     !.failed = IF api_status = "completado" THEN @ ELSE @ + 1]

\* _execute_workflow lines 322-338: the counters after the final write
CountProcessed(st, written, api_status) ==
  IF ~written
    THEN [st EXCEPT !.failed = @ + 1, !.total_processed = @ + 1]
  ELSE [st EXCEPT !.total_processed = @ + 1,
                     !.successful = IF api_status = "completado" THEN @ + 1 ELSE @,
                     !.failed = IF api_status = "completado" THEN @ ELSE @ + 1]

\* the results a run publishes
RunResults == [n1 |-> "record"]

\* the ids a caller may pass: those of the rows and one no row has
CallIds == 1..(MaxRows + 1)

InitExecute ==
  /\ execution \in
       { [pc |-> "idle", id |-> 0, found |-> FALSE,
          rows |-> [i \in 1..k |-> [id |-> i, name |-> "wf", status |-> "en_espera",
                                    definition |-> [nodes |-> << >>]]],
          stats |-> [total_processed |-> 0, successful |-> 0, failed |-> 0],
          log |-> << >>] : k \in 0..MaxRows }
  /\ EngineIdle /\ ServiceIdle /\ WorkersIdle
  /\ RetryIdle /\ RegistryIdle /\ QueryIdle /\ ConvertIdle /\ TaskIdle

executeFrame == <<engineVars, serviceVars, workerVars, retryVars, registryVars, queryVars, convertVars, taskVars>>

\* lines 301-305, the claim write returned True: the call goes on
ExecuteClaim ==
  /\ execution.pc = "idle" /\ Len(execution.log) < MaxExecCalls
  /\ \E id \in CallIds, storeOk \in BOOLEAN :
       LET u == UpdateWorkflowStatusInDb(execution.rows, id, "en_progreso", EmptyMap, storeOk)
       IN /\ u.returned
          /\ execution' = [execution EXCEPT !.pc = "run", !.id = id, !.rows = u.rows,
                                             !.found = id \in DOMAIN execution.rows]
  /\ UNCHANGED executeFrame

\* lines 301-305, the claim write returned False: the call returns False
ExecuteClaimFails ==
  /\ execution.pc = "idle" /\ Len(execution.log) < MaxExecCalls
  /\ \E id \in CallIds, storeOk \in BOOLEAN :
       LET u == UpdateWorkflowStatusInDb(execution.rows, id, "en_progreso", EmptyMap, storeOk)
       IN /\ ~u.returned
          /\ execution' = [execution EXCEPT
               !.rows = u.rows,
               !.log = Append(@, [id |-> id, found |-> id \in DOMAIN execution.rows,
                                  claimed |-> FALSE, ran |-> FALSE, written |-> FALSE,
                                  final |-> "none", returned |-> FALSE,
                                  rows_before |-> execution.rows, rows_after |-> u.rows,
                                  stats_before |-> execution.stats,
                                  stats_after |-> execution.stats])]
  /\ UNCHANGED executeFrame

\* lines 307-338: run() returned a result, its status is mapped and written,
\* the counters are updated
ExecuteFinalise ==
  /\ execution.pc = "run"
  /\ \E outcome \in RunOutcomes, storeOk \in BOOLEAN :
       /\ outcome.kind = "return"
       /\ LET api_status == MapWorkerStatusToApi(outcome.status)
              u == UpdateWorkflowStatusInDb(execution.rows, execution.id, api_status,
                                            RunResults, storeOk)
              counted == CountProcessed(execution.stats, u.returned, api_status)
          IN execution' = [execution EXCEPT
               !.pc = "idle", !.rows = u.rows, !.stats = counted,
               !.log = Append(@, [id |-> execution.id, found |-> execution.found,
                                  claimed |-> TRUE, ran |-> TRUE, written |-> u.returned,
                                  final |-> api_status,
                                  returned |-> u.returned /\ api_status = "completado",
                                  rows_before |-> execution.rows, rows_after |-> u.rows,
                                  stats_before |-> execution.stats,
                                  stats_after |-> counted])]
  /\ UNCHANGED executeFrame

\* lines 341-354: the conversion or run() raised, fallido is written (a
\* failure of this write is ignored), the call counts as failed
ExecuteExcept ==
  /\ execution.pc = "run"
  /\ \E storeOk \in BOOLEAN :
       LET u == UpdateWorkflowStatusInDb(execution.rows, execution.id, ExceptStatus,
                                         EmptyMap, storeOk)
           counted == [execution.stats EXCEPT !.failed = @ + 1, !.total_processed = @ + 1]
       IN execution' = [execution EXCEPT
            !.pc = "idle", !.rows = u.rows, !.stats = counted,
            !.log = Append(@, [id |-> execution.id, found |-> execution.found,
                               claimed |-> TRUE, ran |-> TRUE, written |-> u.returned,
                               final |-> "exception", returned |-> FALSE,
                               rows_before |-> execution.rows, rows_after |-> u.rows,
                               stats_before |-> execution.stats,
                               stats_after |-> counted])]
  /\ UNCHANGED executeFrame

NextExecute ==
  \/ ExecuteClaim
  \/ ExecuteClaimFails
  \/ ExecuteFinalise
  \/ ExecuteExcept

SpecExecute == InitExecute /\ [][NextExecute]_vars


\* ======================================================================
\* RetryDecorator.run (decorador.py), one call, one action per loop iteration
\* ======================================================================
\* mutant of RetryAttempts: one attempt more
RetryAttemptsOneMore(max_retries) == max_retries + 2

\* line 191: range(self.max_retries + 1)
RetryAttempts(max_retries) == max_retries + 1

\* mutant of RetryRemember: the first exception is kept
RetryRememberFirst(last_exception, e) ==
  IF last_exception = "none" THEN e ELSE last_exception

\* line 210: last_exception = e
RetryRemember(last_exception, e) == e

\* mutant of RetrySleep: the backoff is applied before the sleep
RetrySleepAfterBackoff(r) ==
  IF r.attempt > 0
    THEN [r EXCEPT !.sleeps = Append(@, r.current_delay * r.backoff_multiplier),
                   !.current_delay = @ * r.backoff_multiplier]
    ELSE r

\* lines 193-199 of an iteration: sleep and backoff before every attempt but
\* the first
RetrySleep(r) ==
  IF r.attempt > 0
    THEN [r EXCEPT !.sleeps = Append(@, r.current_delay),
                   !.current_delay = @ * r.backoff_multiplier]
    ELSE r

\* a RetryDecorator as constructed, at the start of its run
InitRetry ==
  /\ retry \in { [pc |-> "loop", max_retries |-> m, delay_seconds |-> d,
                   backoff_multiplier |-> k, attempt |-> 0, current_delay |-> d,
                   last_exception |-> "none", sleeps |-> << >>, attempts |-> << >>,
                   result |-> PyNone, exc |-> "none"]
                  : m \in 0..MaxRetries, d \in 0..MaxDelay, k \in 1..MaxMultiplier }
  /\ EngineIdle /\ ServiceIdle /\ WorkersIdle
  /\ RegistryIdle /\ QueryIdle /\ ConvertIdle /\ TaskIdle /\ ExecuteIdle

\* lines 191-207: an iteration whose inner run returns
RetryAttemptReturns ==
  /\ retry.pc = "loop" /\ retry.attempt < RetryAttempts(retry.max_retries)
  /\ \E b \in TaskBehaviours :
       LET out == ITaskRun(b, EmptyMap)
       IN /\ out.kind = "return"
          /\ retry' = [RetrySleep(retry) EXCEPT
                         !.attempts = Append(@, [kind |-> "return", behaviour |-> b,
                                                 value |-> out.value]),
                         !.result = out.value,
                         !.pc = "returned"]
  /\ UNCHANGED <<engineVars, serviceVars, workerVars, registryVars, queryVars, convertVars, taskVars, executeVars>>

\* lines 191-220: an iteration whose inner run raises
RetryAttemptRaises ==
  /\ retry.pc = "loop" /\ retry.attempt < RetryAttempts(retry.max_retries)
  /\ \E b \in TaskBehaviours :
       LET out == ITaskRun(b, EmptyMap)
       IN /\ out.kind = "raise"
          /\ retry' = [RetrySleep(retry) EXCEPT
                         !.attempts = Append(@, [kind |-> "raise", behaviour |-> b,
                                                 exc |-> out.exc]),
                         !.last_exception = RetryRemember(@, out.exc),
                         !.attempt = @ + 1]
  /\ UNCHANGED <<engineVars, serviceVars, workerVars, registryVars, queryVars, convertVars, taskVars, executeVars>>

\* line 223: the loop is over, the last exception is raised
RetryExhausted ==
  /\ retry.pc = "loop" /\ retry.attempt >= RetryAttempts(retry.max_retries)
  /\ retry' = [retry EXCEPT !.pc = "raised", !.exc = retry.last_exception]
  /\ UNCHANGED <<engineVars, serviceVars, workerVars, registryVars, queryVars, convertVars, taskVars, executeVars>>

NextRetry ==
  \/ RetryAttemptReturns
  \/ RetryAttemptRaises
  \/ RetryExhausted

SpecRetry == InitRetry /\ [][NextRetry]_vars

\* ======================================================================
\* Properties
\* ======================================================================
NodeIds == DOMAIN wf.nodes
DepsOf(n) == wf.nodes[n].depends_on
Terminated(n) == n \in DOMAIN node_status
Returned == wfResult # NoResult

\* the nodes reachable from n through depends_on
RECURSIVE Reach(_, _)
Reach(frontier, seen) ==
  LET new == (UNION {DepsOf(m) : m \in frontier \cap NodeIds}) \ seen
  IN IF new = {} THEN seen ELSE Reach(new, seen \cup new)
TransDeps(n) == Reach({n}, {}) \cap NodeIds

\* position in trace of the event that terminated node n (0: none)
TermPos(n) ==
  IF \E i \in 1..Len(trace) : trace[i].node = n
    THEN CHOOSE i \in 1..Len(trace) : trace[i].node = n
    ELSE 0

\* the definition is a DAG: every depends_on names nodes, no node reaches itself
ValidDag == \A n \in NodeIds : DepsOf(n) \subseteq NodeIds /\ n \notin TransDeps(n)

\* C1: in a workflow whose definition is a DAG, whenever the task of a node n
\* is started, every node in the transitive depends_on set of n has already
\* terminated (executed or skipped).
DependencyRespect ==
  ValidDag =>
    \A i \in 1..Len(trace) :
      trace[i].kind = "exec" =>
        \A p \in TransDeps(trace[i].node) : TermPos(p) > 0 /\ TermPos(p) < i

\* the direct part of C1: every m in n.depends_on terminated before n started
DirectDependencyRespect ==
  \A i \in 1..Len(trace) :
    trace[i].kind = "exec" =>
      \A p \in DepsOf(trace[i].node) : TermPos(p) > 0 /\ TermPos(p) < i

\* C2: a node n with a FAILED node among its depends_on is never handed to
\* the task runner, once terminated it is SKIPPED with the synthetic record,
\* and it has terminated whenever run() returns or raises the cyclic error.
HasFailedDep(n) == \E m \in DepsOf(n) : Terminated(m) /\ node_status[m] = "FAILED"
SkipPropagation ==
  \A n \in NodeIds :
    HasFailedDep(n) =>
      /\ n \notin DOMAIN calls
      /\ Terminated(n) =>
           /\ node_status[n] = "SKIPPED"
           /\ results[n] = PyDict([status |-> "SKIPPED", reason |-> DepsOf(n)])
           /\ n \notin DOMAIN context
      /\ (Returned \/ exc = CyclicOrBlockedDAG) => Terminated(n)

\* witness of C2: a node listed before its failed dependency, with a second
\* dependency that succeeded, ends SKIPPED
SkipPropagationWitness ==
  /\ pc = "done" /\ Returned
  /\ \E n \in NodeIds : \E m, k \in DepsOf(n) :
       /\ n < m /\ m # k
       /\ Terminated(m) /\ node_status[m] = "FAILED"
       /\ Terminated(k) /\ node_status[k] = "SUCCESS"
       /\ Terminated(n) /\ node_status[n] = "SKIPPED"

AllIn(S) == \A n \in NodeIds : Terminated(n) /\ node_status[n] \in S

\* C3 as stated: SUCCESS iff all nodes SUCCESS, FAILED iff all nodes in
\* {FAILED, SKIPPED}, PARTIAL_SUCCESS otherwise, for every returned run.
StatusReductionAsClaimed ==
  Returned =>
    /\ wfResult.status = "SUCCESS" <=> AllIn({"SUCCESS"})
    /\ wfResult.status = "FAILED" <=> AllIn({"FAILED", "SKIPPED"})
    /\ wfResult.status = "PARTIAL_SUCCESS" <=>
         (~AllIn({"SUCCESS"}) /\ ~AllIn({"FAILED", "SKIPPED"}))

\* C3 amended: SUCCESS iff every node status is SUCCESS (a workflow with no
\* nodes included), FAILED iff there is at least one node and every node
\* status is in {FAILED, SKIPPED}, PARTIAL_SUCCESS otherwise.
StatusReduction ==
  Returned =>
    /\ \A n \in NodeIds : Terminated(n)
    /\ wfResult.status \in {"SUCCESS", "FAILED", "PARTIAL_SUCCESS"}
    /\ wfResult.status = "SUCCESS" <=> AllIn({"SUCCESS"})
    /\ wfResult.status = "FAILED" <=> (NodeIds # {} /\ AllIn({"FAILED", "SKIPPED"}))
    /\ wfResult.status = "PARTIAL_SUCCESS" <=>
         (~AllIn({"SUCCESS"}) /\ ~(NodeIds # {} /\ AllIn({"FAILED", "SKIPPED"})))

\* witness of C3: a returned run with a SUCCESS, a FAILED and a SKIPPED node
StatusReductionWitness ==
  /\ Returned /\ wfResult.status = "PARTIAL_SUCCESS"
  /\ \E a, b, c \in NodeIds :
       node_status[a] = "SUCCESS" /\ node_status[b] = "FAILED" /\ node_status[c] = "SKIPPED"

\* the envelope execute_command returned for n, and what it carries
Envelope(n) == calls[n].value
EnvelopeResult(n) == IF "result" \in DOMAIN Envelope(n) THEN Envelope(n)["result"] ELSE PyNone
SuccessLiterallyFalse(v) ==
  v.py = "dict" /\ "success" \in DOMAIN v.items /\ v.items["success"] = FALSE
Graceful(n) ==
  /\ n \in DOMAIN calls /\ calls[n].kind = "return"
  /\ Envelope(n)["status"] = "SUCCESS" /\ SuccessLiterallyFalse(EnvelopeResult(n))

\* C4: an executed node is SUCCESS iff the envelope status is SUCCESS and the
\* result is not a mapping whose success field is false, otherwise FAILED; a
\* graceful failure is FAILED and its dependents are skipped, never executed.
NodeStatusDetermination ==
  /\ \A n \in DOMAIN calls :
       calls[n].kind = "return" =>
         /\ Terminated(n)
         /\ node_status[n] \in {"SUCCESS", "FAILED"}
         /\ node_status[n] = "SUCCESS" <=>
              (Envelope(n)["status"] = "SUCCESS" /\ ~SuccessLiterallyFalse(EnvelopeResult(n)))
  /\ \A n \in NodeIds :
       Graceful(n) =>
         /\ node_status[n] = "FAILED"
         /\ \A d \in NodeIds :
              n \in DepsOf(d) =>
                /\ d \notin DOMAIN calls
                /\ Terminated(d) => node_status[d] = "SKIPPED"
                /\ Returned => Terminated(d)

\* witness of C4: a graceful failure (SUCCESS envelope, success:false) that
\* is FAILED and whose dependent was skipped
NodeStatusWitness ==
  /\ pc = "done" /\ Returned
  /\ \E n, d \in NodeIds :
       /\ Graceful(n) /\ node_status[n] = "FAILED"
       /\ n \in DepsOf(d)
       /\ Terminated(d) /\ node_status[d] = "SKIPPED"

\* C5: the context that reaches the task's run holds the published result of
\* every node in the depends_on of the executed node.
ContextThreading ==
  \A n \in DOMAIN calls :
    calls[n].ran =>
      \A m \in DepsOf(n) : m \in DOMAIN calls[n].context /\ calls[n].context[m] = results[m]

PureCycle ==
  /\ DOMAIN row.definition["nodes"] = {1, 2}
  /\ row.definition["nodes"][1].depends_on = {2}
  /\ row.definition["nodes"][2].depends_on = {1}

CycleRejectionState ==
  /\ exc = CyclicOrBlockedDAG =>
       /\ ~progress /\ pending # {}
       /\ wfResult = NoResult
       /\ row.status \in {"en_progreso", "fallido"}
       /\ pc = "done" => row.status = "fallido"
  /\ PureCycle =>
       /\ calls = EmptyMap /\ nodeRuns = << >>
       /\ pc = "done" => (exc = CyclicOrBlockedDAG /\ row.status = "fallido")
       /\ pc \in {"poll", "pass", "except", "done"}
CycleRejectionStep ==
  (pc = "pass" /\ passList = << >> /\ ~progress /\ pending # {}) =>
     (exc' = CyclicOrBlockedDAG /\ pc' = "except" /\ wfResult' = NoResult)

\* C6: a pass without progress while pending is non-empty ends run() with the
\* cyclic/blocked error and without a result; the row then ends fallido; for
\* the pure cycle A <-> B no task is ever executed and the row ends fallido.
CycleRejection == []CycleRejectionState /\ [][CycleRejectionStep]_vars

\* witness of C6: the pure cycle has been processed
CycleRejectionWitness ==
  PureCycle /\ pc = "done" /\ exc = CyclicOrBlockedDAG /\ row.status = "fallido"

RunEnded == pc \in {"finalise", "except", "done"}

\* C7: after run() ended with the cyclic-or-blocked error the WorkflowRun row
\* is FAILED with the error in its summary, and it is never left RUNNING
\* once run() has ended.
CyclicRunRecorded ==
  (RunEnded /\ exc = CyclicOrBlockedDAG) =>
     /\ workflowRun.status # "RUNNING"
     /\ workflowRun.status = "FAILED"
     /\ workflowRun.result_summary # EmptyMap

\* C8: the only exception that leaves run() is the cyclic-or-blocked error;
\* every other node failure is a FAILED node of a returned WorkflowResult.
RunThrowsOnlyCyclic ==
  /\ exc \in {NoExc, CyclicOrBlockedDAG}
  /\ (pc = "done" /\ exc # CyclicOrBlockedDAG) =>
       (Returned /\ DOMAIN wfResult.results = NodeIds)

\* C9: execute_command for a type the registry does not hold returns a FAILED
\* envelope with the error 'Unknown task type', and the node is FAILED.
UnknownTypeEnvelope ==
  \A n \in DOMAIN calls :
    wf.nodes[n].type \notin registry =>
      /\ calls[n].kind = "return"
      /\ Envelope(n)["status"] = "FAILED"
      /\ Envelope(n)["error"] = UnknownTaskType
      /\ Terminated(n) /\ node_status[n] = "FAILED"

\* C10: for a registered type the envelope is SUCCESS with the result iff the
\* task's run returned and FAILED with the error iff it raised; both carry
\* the command's run_id and node_key; run is invoked exactly once.
RunnerEnvelope ==
  \A n \in DOMAIN calls :
    wf.nodes[n].type \in registry =>
      /\ calls[n].kind = "return"
      /\ calls[n].calls = 1
      /\ Envelope(n)["status"] = "SUCCESS" <=> calls[n].run = "return"
      /\ Envelope(n)["status"] = "FAILED" <=> calls[n].run = "raise"
      /\ Envelope(n)["status"] = "SUCCESS" => "result" \in DOMAIN Envelope(n)
      /\ Envelope(n)["status"] = "FAILED" => "error" \in DOMAIN Envelope(n)
      /\ "run_id" \in DOMAIN Envelope(n) /\ Envelope(n)["run_id"] = <<wf.name, n>>
      /\ "node_key" \in DOMAIN Envelope(n) /\ Envelope(n)["node_key"] = n

\* the part of C10 the code keeps: status, payload and the single run call
RunnerEnvelopeStatus ==
  \A n \in DOMAIN calls :
    wf.nodes[n].type \in registry =>
      /\ calls[n].kind = "return"
      /\ calls[n].calls = 1
      /\ Envelope(n)["status"] = "SUCCESS" <=> calls[n].run = "return"
      /\ Envelope(n)["status"] = "FAILED" <=> calls[n].run = "raise"

\* C14: the status written to the shared row at finalisation is completado
\* iff the workflow status is SUCCESS or PARTIAL_SUCCESS and fallido iff it
\* is FAILED; the mapping sends SUCCESS and PARTIAL_SUCCESS to completado,
\* FAILED to fallido and RUNNING to en_progreso.
ExternalStatus ==
  /\ MapWorkerStatusToApi("SUCCESS") = "completado"
  /\ MapWorkerStatusToApi("PARTIAL_SUCCESS") = "completado"
  /\ MapWorkerStatusToApi("FAILED") = "fallido"
  /\ MapWorkerStatusToApi("RUNNING") = "en_progreso"
  /\ (pc = "done" /\ Returned) =>
       /\ row.status = "completado" <=> wfResult.status \in {"SUCCESS", "PARTIAL_SUCCESS"}
       /\ row.status = "fallido" <=> wfResult.status = "FAILED"

\* witness of C14: a partial success was finalised as completado
ExternalStatusWitness ==
  /\ pc = "done" /\ Returned
  /\ wfResult.status = "PARTIAL_SUCCESS"
  /\ row.status = "completado"

\* C19: when validate_params or execute raises inside ITask.run the state is
\* marked failed with the error, on_error is invoked exactly once, a non-null
\* hook value is returned and nothing propagates, and when the hook returns
\* null or raises the original exception is re-raised.
TaskErrorPath ==
  \A n \in DOMAIN calls :
    calls[n].ran =>
      LET t == calls[n].task
          b == t.behaviour
          failure == TaskFailure(b)
      IN failure # "none" =>
           /\ t.state.started /\ t.state.failed /\ ~t.state.completed
           /\ t.state.error = failure
           /\ t.on_error_calls = 1
           /\ b.on_error = "dict" =>
                /\ t.kind = "return"
                /\ HasKey(t.value, "success") /\ t.value.items["success"] = FALSE
                /\ t.value.items["error"] = failure
                /\ calls[n].run = "return"
           /\ b.on_error \in {"None", "raise"} =>
                /\ t.kind = "raise" /\ t.exc = failure
                /\ calls[n].run = "raise"

\* witness of C19: an execute that raised with an on_error that raised too,
\* and the original exception reached the runner
TaskErrorPathWitness ==
  \E n \in DOMAIN calls :
    /\ calls[n].ran
    /\ calls[n].task.behaviour.on_error = "raise"
    /\ calls[n].task.behaviour.execute.kind = "raise"
    /\ calls[n].task.kind = "raise"
    /\ calls[n].task.exc = calls[n].task.behaviour.execute.exc
    /\ calls[n].value["status"] = "FAILED"

\* the attempts of the retry call made so far that raised
RetryRaised == {i \in 1..Len(retry.attempts) : retry.attempts[i].kind = "raise"}
RetryEnded == retry.pc \in {"returned", "raised"}

\* C20: RetryDecorator.run invokes the inner run at most max_retries + 1
\* times, stops at the first attempt that returns, and invokes it exactly
\* max_retries + 1 times when every attempt raises.
RetryBound ==
  retry.pc # "none" =>
    /\ Len(retry.attempts) <= retry.max_retries + 1
    /\ \A i \in 1..Len(retry.attempts) :
         retry.attempts[i].kind = "return" =>
           i = Len(retry.attempts) /\ retry.pc = "returned"
    /\ retry.pc = "returned" => retry.attempts[Len(retry.attempts)].kind = "return"
    /\ (RetryEnded /\ RetryRaised = 1..Len(retry.attempts)) =>
         /\ Len(retry.attempts) = retry.max_retries + 1
         /\ retry.pc = "raised"

\* witness of C20: max_retries = 2, every attempt raised, three inner calls
RetryBoundWitness ==
  /\ retry.pc = "raised"
  /\ retry.max_retries = 2
  /\ Len(retry.attempts) = 3
  /\ RetryRaised = 1..3

\* a success:false mapping, what a task returns for a graceful failure
GracefulFailure(v) == HasKey(v, "success") /\ v.items["success"] = FALSE

\* C21: when all max_retries + 1 attempts raise, RetryDecorator.run raises
\* the exception of the last attempt; an attempt that returns a
\* success:false mapping ends the call, which returns that mapping.
RetryOutcome ==
  retry.pc # "none" =>
    /\ retry.pc = "raised" =>
         /\ RetryRaised = 1..(retry.max_retries + 1)
         /\ Len(retry.attempts) = retry.max_retries + 1
         /\ retry.exc = retry.attempts[Len(retry.attempts)].exc
    /\ (retry.pc # "loop" /\ RetryRaised = 1..(retry.max_retries + 1)) => retry.pc = "raised"
    /\ \A i \in 1..Len(retry.attempts) :
         (retry.attempts[i].kind = "return" /\ GracefulFailure(retry.attempts[i].value)) =>
           /\ i = Len(retry.attempts)
           /\ retry.pc = "returned"
           /\ retry.result = retry.attempts[i].value

\* witness of C21: every attempt raised, the last one another exception than
\* the first, and that one left the call
RetryOutcomeWitness ==
  /\ retry.pc = "raised"
  /\ retry.max_retries = 1
  /\ Len(retry.attempts) = 2
  /\ retry.attempts[1].exc = "TaskError"
  /\ retry.attempts[2].exc = "InvalidParams"
  /\ retry.exc = "InvalidParams"

\* C22: a failure of validate_params is not retried: under the Retry
\* decorator the task whose validate_params raised is attempted once only.
InvalidParamsNotRetried ==
  retry.pc # "none" =>
    Cardinality({i \in 1..Len(retry.attempts) :
                   retry.attempts[i].behaviour.validate = "raise"}) <= 1

\* C23: for a type configured with the decorators [D1, ..., Dn] the first
\* entry is the outermost wrapper and the last runs closest to the task:
\* the decorators' run methods are entered in the configured order.
DecoratorOrder ==
  \A n \in DOMAIN calls :
    calls[n].ran => calls[n].task.entered = TASK_DECORATOR_MAP(wf.nodes[n].type)

\* ------------------------------------------------------- Taskregistry
\* the types whose registration has succeeded since the last clear(), read
\* from a sequence of calls
LastClear(log) ==
  LET cs == {i \in DOMAIN log : log[i].op = "clear"}
  IN IF cs = {} THEN 0 ELSE CHOOSE i \in cs : \A j \in cs : j <= i
RegisteredSince(log) ==
  {log[i].arg : i \in {j \in DOMAIN log : /\ j > LastClear(log)
                                           /\ log[j].op = "register"
                                           /\ log[j].kind = "return"}}

\* C24: register fails for a type that is already registered and for a
\* type that is not a known task, and leaves the registry as it was; a
\* successful register adds that one type and nothing else.
RegistryRegistration ==
  [][(Len(regCalls') = Len(regCalls) + 1 /\ regCalls'[Len(regCalls')].op = "register") =>
       LET call == regCalls'[Len(regCalls')]
           t == call.arg
       IN IF t \notin All_posible_tasks \/ t \in RegisteredSince(regCalls)
            THEN call.kind = "raise" /\ taskRegistry' = taskRegistry
            ELSE /\ call.kind = "return"
                 /\ RegistryKeys(taskRegistry') = RegistryKeys(taskRegistry) \cup {t}
                 /\ Len(taskRegistry') = Len(taskRegistry) + 1
                 /\ SubSeq(taskRegistry', 1, Len(taskRegistry)) = taskRegistry]_vars

\* witness of C24: a registration, then a duplicate and an unknown type
\* both refused, one entry in the registry
RegistryRegistrationWitness ==
  /\ Len(regCalls) = 3
  /\ regCalls[1] = [op |-> "register", arg |-> "http_get", kind |-> "return"]
  /\ regCalls[2] = [op |-> "register", arg |-> "http_get", kind |-> "raise",
                    exc |-> AlreadyRegistered]
  /\ regCalls[3] = [op |-> "register", arg |-> "invalid_task", kind |-> "raise",
                    exc |-> NotATask]
  /\ RegistryKeys(taskRegistry) = {"http_get"}

\* C25: create(t) returns an instance of t's class iff t has been
\* registered since the last clear() and raises otherwise; list() has
\* exactly one entry, the class, per registered type, none after clear().
RegistryLookup ==
  \A i \in DOMAIN regCalls :
    LET call == regCalls[i]
        registered == RegisteredSince(SubSeq(regCalls, 1, i - 1))
    IN /\ call.op = "create" =>
            /\ call.kind = "return" <=> call.arg \in registered
            /\ call.kind = "return" => call.value.instance_of = TaskClass(call.arg)
            /\ call.kind = "raise" => call.exc = UnknownTaskType
       /\ call.op = "list" =>
            /\ Len(call.value) = Cardinality(registered)
            /\ {call.value[k] : k \in DOMAIN call.value} = {TaskClass(t) : t \in registered}

\* witness of C25: a type registered and created, then cleared: create fails
RegistryLookupWitness ==
  /\ Len(regCalls) = 3
  /\ regCalls[1].op = "register" /\ regCalls[1].arg = "http_get" /\ regCalls[1].kind = "return"
  /\ regCalls[2].op = "clear"
  /\ regCalls[3].op = "create" /\ regCalls[3].arg = "http_get" /\ regCalls[3].kind = "raise"
  /\ taskRegistry = << >>

\* ------------------------------------------------------------ pending()
\* C26: _get_pending_workflows_from_db skips a row whose definition cannot
\* be deserialised and returns every other row whose status is en_espera,
\* and no row with another status.
PendingRobust ==
  query.pc = "returned" =>
    {query.result[i].id : i \in DOMAIN query.result}
      = {query.rows[i].id : i \in {j \in DOMAIN query.rows :
                                     /\ query.rows[j].status = "en_espera"
                                     /\ query.rows[j].definition # "not json"}}

\* ------------------------------------------------ definition round trip
\* C27: when an executed workflow is finalised, the row's definition keeps
\* its nodes and every other key it had, and carries execution_results
\* (node id -> result) and executed_at; for every executed workflow.
DefinitionRoundTrip ==
  [][(pc = "finalise" /\ pc' = "done") =>
       /\ \A k \in DOMAIN row.definition \ {"execution_results", "executed_at"} :
            k \in DOMAIN row'.definition /\ row'.definition[k] = row.definition[k]
       /\ "execution_results" \in DOMAIN row'.definition
       /\ row'.definition["execution_results"] = wfResult.results
       /\ "executed_at" \in DOMAIN row'.definition]_vars

\* -------------------------------------------------- legacy translation
\* what the translation of each name must be, written out
ExpectedStepType ==
  { <<<<"H", "T", "T", "P", "S", " ", "G", "E", "T", " ", "R", "e", "q", "u", "e", "s", "t">>,
      <<"h", "t", "t", "p", "_", "g", "e", "t">>>>,
    <<<<"V", "a", "l", "i", "d", "a", "t", "e", " ", "C", "S", "V", " ", "F", "i", "l", "e">>,
      <<"v", "a", "l", "i", "d", "a", "t", "e", "_", "c", "s", "v">>>>,
    <<<<"S", "i", "m", "p", "l", "e", " ", "T", "r", "a", "n", "s", "f", "o", "r", "m">>,
      <<"t", "r", "a", "n", "s", "f", "o", "r", "m", "_", "s", "i", "m", "p", "l", "e">>>>,
    <<<<"S", "a", "v", "e", " ", "t", "o", " ", "D", "a", "t", "a", "b", "a", "s", "e">>,
      <<"s", "a", "v", "e", "_", "d", "b">>>>,
    <<<<"M", "o", "c", "k", " ", "N", "o", "t", "i", "f", "i", "c", "a", "t", "i", "o", "n">>,
      <<"n", "o", "t", "i", "f", "y", "_", "m", "o", "c", "k">>>>,
    <<<< >>,
      << >>>>,
    <<<<"M", "y", " ", "T", "a", "s", "k">>,
      <<"m", "y", "_", "t", "a", "s", "k">>>>,
    <<<<"h", "t", "t", "p", "_", "g", "e", "t">>,
      <<"h", "t", "t", "p", "_", "g", "e", "t">>>>,
    <<<<"S", "i", "m", "p", "l", "e", " ", "t", "r", "a", "n", "s", "f", "o", "r", "m">>,
      <<"s", "i", "m", "p", "l", "e", "_", "t", "r", "a", "n", "s", "f", "o", "r", "m">>>> }

\* C28: a definition without `nodes` and with steps s_0..s_{k-1} becomes
\* the nodes step_0..step_{k-1} in the same order, params taken from args,
\* step_0 without dependencies and step_i depending on step_{i-1} alone; a
\* display name becomes its canonical type and any other name is lowercased
\* with its spaces replaced by underscores; a definition with `nodes` is
\* used as given.
LegacyTranslation ==
  conversion.pc = "done" =>
    LET definition == conversion.api_workflow.definition
        nodes == conversion.workflow_def.nodes
        steps == IF "steps" \in DOMAIN definition THEN definition["steps"] ELSE << >>
    IN IF "nodes" \in DOMAIN definition
         THEN /\ Len(nodes) = Len(definition["nodes"])
              /\ \A k \in DOMAIN nodes :
                   \A key \in DOMAIN definition["nodes"][k] :
                     nodes[k][key] = definition["nodes"][k][key]
         ELSE /\ Len(nodes) = Len(steps)
              /\ \A k \in DOMAIN nodes :
                   /\ nodes[k].id = <<"step_", k - 1>>
                   /\ "args" \in DOMAIN steps[k] => nodes[k].params = steps[k]["args"]
                   /\ nodes[k].depends_on =
                        (IF k = 1 THEN << >> ELSE << <<"step_", k - 2>> >>)
                   /\ "type" \in DOMAIN steps[k] =>
                        <<steps[k]["type"], nodes[k].type>> \in ExpectedStepType

\* witness of C28: two legacy steps, a display name and another name
LegacyTranslationWitness ==
  /\ conversion.pc = "done"
  /\ "nodes" \notin DOMAIN conversion.api_workflow.definition
  /\ Len(conversion.workflow_def.nodes) = 2
  /\ conversion.api_workflow.definition["steps"][1]["type"] = <<"H", "T", "T", "P", "S", " ", "G", "E", "T", " ", "R", "e", "q", "u", "e", "s", "t">>
  /\ conversion.workflow_def.nodes[1].type = <<"h", "t", "t", "p", "_", "g", "e", "t">>
  /\ conversion.api_workflow.definition["steps"][2]["type"] = <<"M", "y", " ", "T", "a", "s", "k">>
  /\ conversion.workflow_def.nodes[2].type = <<"m", "y", "_", "t", "a", "s", "k">>
  /\ conversion.workflow_def.nodes[2].depends_on = << <<"step_", 0>> >>

\* ----------------------------------------------------------- run summary
\* C29: when run() finishes, the result_summary of the WorkflowRun row maps
\* every node id to the status the executor determined for the node.
RunSummary ==
  wfResult # NoResult =>
    /\ DOMAIN workflowRun.result_summary = DOMAIN node_status
    /\ \A n \in DOMAIN node_status : workflowRun.result_summary[n] = node_status[n]

\* the methods a run called
StepsOf(task) == {task.steps[i] : i \in DOMAIN task.steps}

\* C30: in ITask.run execute is invoked only after validate_params has
\* returned normally; when validate_params raises, execute is never called
\* and the error path is taken: failed state with the error, on_error.
ValidateBeforeExecute ==
  \A n \in DOMAIN calls :
    calls[n].ran =>
      LET task == calls[n].task
      IN /\ \A i \in DOMAIN task.steps :
              task.steps[i] = "execute" =>
                /\ \E j \in 1..(i - 1) : task.steps[j] = "validate_params"
                /\ task.behaviour.validate = "ok"
         /\ task.behaviour.validate = "raise" =>
              /\ "execute" \notin StepsOf(task)
              /\ "on_error" \in StepsOf(task)
              /\ task.state.failed /\ ~task.state.completed
              /\ task.state.error = "InvalidParams"
              /\ task.on_error_calls = 1

\* witness of C30: a node whose validate_params raised has been run
ValidateBeforeExecuteWitness ==
  \E n \in DOMAIN calls :
    /\ calls[n].ran
    /\ calls[n].task.behaviour.validate = "raise"
    /\ calls[n].task.steps = <<"before", "validate_params", "on_error">>
    /\ calls[n].task.state.failed

\* ------------------------------------------------------------ task hooks
\* the part of C31 about the hooks: an exception of before does not keep
\* validate_params (and, after a passing validation, execute) from being
\* called; an exception of after leaves the call returning what execute
\* returned, without on_error and without the failed mark of this call;
\* one call sets at most one of completed and failed
HookFailuresContained ==
  \A i \in DOMAIN instance.outcomes :
    LET o == instance.outcomes[i]
        h == o.behaviour
        before == IF i = 1 THEN FreshState ELSE instance.outcomes[i - 1].state
    IN /\ h.before = "raise" =>
            /\ "validate_params" \in StepsOf(o)
            /\ h.validate = "ok" => "execute" \in StepsOf(o)
       /\ (TaskFailure(h) = "none" /\ h.after = "raise") =>
            /\ o.kind = "return" /\ o.value = h.execute.value
            /\ "on_error" \notin StepsOf(o)
            /\ o.state.failed = before.failed
            /\ o.state.completed
       /\ ~(o.state.completed # before.completed /\ o.state.failed # before.failed)

\* a call whose before and after both raised has returned execute's value
HookFailuresContainedWitness ==
  \E i \in DOMAIN instance.outcomes :
    /\ instance.outcomes[i].warnings = {"before", "after"}
    /\ instance.outcomes[i].kind = "return"

\* C31: hook failures do not change the outcome of ITask.run (before raising
\* does not prevent validate_params/execute, after raising neither discards
\* the result nor marks the task failed nor triggers on_error), and the
\* execution state never has both completed and failed set.
HookTransparency ==
  /\ HookFailuresContained
  /\ ~(instance.state.completed /\ instance.state.failed)

\* ----------------------------------------------------------- retry delays
RECURSIVE Power(_, _)
Power(base, n) == IF n = 0 THEN 1 ELSE base * Power(base, n - 1)

\* C32: the first attempt of RetryDecorator.run is made without waiting, the
\* wait before the k-th retry is delay_seconds * backoff_multiplier^(k-1),
\* and there is no wait after the last failed attempt: at any time there is
\* one wait between two consecutive attempts and none else.
RetryDelays ==
  /\ \A k \in DOMAIN retry.sleeps :
       retry.sleeps[k] = retry.delay_seconds * Power(retry.backoff_multiplier, k - 1)
  /\ Len(retry.sleeps) = IF retry.attempts = << >> THEN 0 ELSE Len(retry.attempts) - 1
  /\ Len(retry.sleeps) <= retry.max_retries

\* witness of C32: all attempts failed after three retries with a growing
\* delay
RetryDelaysWitness ==
  /\ retry.pc = "raised"
  /\ Len(retry.sleeps) = 3
  /\ retry.sleeps[3] > retry.sleeps[2] /\ retry.sleeps[2] > retry.sleeps[1]

\* ------------------------------------------------- timing and logging
\* the value a stack of decorators hands back for the inner result v: the
\* timing decorator adds its key to a mapping
TimedValue(decs, v) ==
  IF IsDict(v) /\ \E i \in DOMAIN decs : decs[i] = "TimeDecorator"
    THEN PyDict(("_execution_time_seconds" :> TRUE) @@ v.items)
    ELSE v

\* C33: TimeDecorator.run and LoggingDecorator.run call the inner run exactly
\* once, raise exactly when the inner run raises, with the same exception,
\* and otherwise return the inner result, the timing decorator adding only
\* the key _execution_time_seconds to a mapping.
DecoratorTransparency ==
  decorated.pc = "done" =>
    /\ decorated.out.calls = 1
    /\ decorated.out.kind = decorated.inner.kind
    /\ decorated.inner.kind = "raise" => decorated.out.exc = decorated.inner.exc
    /\ (decorated.inner.kind = "return" /\ decorated.out.kind = "return") =>
         decorated.out.value = TimedValue(decorated.decs, decorated.inner.value)

\* the part of C33 the code keeps: the timing decorator alone, and the
\* logging decorator when params and result can be dumped as JSON
DecoratorTransparencyJson ==
  (/\ decorated.pc = "done"
   /\ \/ decorated.decs = <<"TimeDecorator">>
      \/ /\ JsonSerializable(decorated.params)
         /\ decorated.inner.kind = "return" => JsonSerializable(decorated.inner.value))
  => /\ decorated.out.calls = 1
     /\ decorated.out.kind = decorated.inner.kind
     /\ decorated.inner.kind = "raise" => decorated.out.exc = decorated.inner.exc
     /\ decorated.inner.kind = "return" =>
          decorated.out.value = TimedValue(decorated.decs, decorated.inner.value)

\* ------------------------------------------------- _execute_workflow calls
ExecLog == {execution.log[i] : i \in DOMAIN execution.log}

\* C34: updating a workflow id the store does not hold returns False,
\* creates no row and changes no row; at the claim step the workflow is then
\* not executed and no statistics counter changes.
UpdateNonexistent ==
  execution.pc # "none" =>
    \A c \in ExecLog :
      ~c.found =>
        /\ ~c.returned /\ ~c.claimed /\ ~c.ran
        /\ c.rows_after = c.rows_before
        /\ c.stats_after = c.stats_before

\* witness of C34: a call for an id no row has came back after another call
\* had processed a row
UpdateNonexistentWitness ==
  /\ execution.pc = "idle"
  /\ \E c \in ExecLog : ~c.found /\ ~c.returned /\ c.rows_before # << >>
  /\ \E c \in ExecLog : c.ran

\* C37: total_processed = successful + failed after any sequence of
\* _execute_workflow calls; successful is incremented exactly when the row
\* was finalised as completado (the call returns True), failed for fallido
\* results, a failed finalisation and exceptions, and a claimed row
\* increments total_processed exactly once.
StatisticsInvariant ==
  execution.pc # "none" =>
    /\ execution.stats.total_processed = execution.stats.successful + execution.stats.failed
    /\ execution.stats.total_processed = Cardinality({i \in DOMAIN execution.log :
                                                       execution.log[i].claimed})
    /\ \A c \in ExecLog :
         LET finalised == c.written /\ c.final = "completado"
             total == c.stats_after.total_processed - c.stats_before.total_processed
             successful == c.stats_after.successful - c.stats_before.successful
             failed == c.stats_after.failed - c.stats_before.failed
         IN /\ total = IF c.claimed THEN 1 ELSE 0
            /\ successful = IF finalised THEN 1 ELSE 0
            /\ failed = IF c.claimed /\ ~finalised THEN 1 ELSE 0
            /\ c.returned <=> finalised
            /\ finalised => c.rows_after[c.id].status = "completado"

\* witness of C37: a completed row, a failed final write and an exception
\* have all been counted
StatisticsInvariantWitness ==
  /\ execution.pc = "idle"
  /\ \E c \in ExecLog : c.returned
  /\ \E c \in ExecLog : c.claimed /\ ~c.written /\ c.final = "completado"
  /\ \E c \in ExecLog : c.final = "exception"

\* ---------------------------------------------------- run and node rows
TerminalStatuses == {"SUCCESS", "PARTIAL_SUCCESS", "FAILED"}

\* a step that writes the WorkflowRun row creates it as RUNNING before any
\* node was executed or skipped, or turns RUNNING into a terminal status
\* when no node is pending
WorkflowRunStep ==
  workflowRun' # workflowRun =>
    \/ workflowRun = NoRow /\ workflowRun'.status = "RUNNING" /\ trace = << >>
    \/ /\ workflowRun.status = "RUNNING"
       /\ workflowRun'.status \in TerminalStatuses
       /\ pending = {}

\* one NodeRun row per executed node and none for a skipped one, the row of
\* a node written after the rows of the executed nodes it depends on
NodeRunRows ==
  /\ \A n \in DOMAIN node_status :
       Cardinality({i \in DOMAIN nodeRuns : nodeRuns[i].node_id = n})
         = IF node_status[n] = "SKIPPED" THEN 0 ELSE 1
  /\ \A i \in DOMAIN nodeRuns :
       /\ nodeRuns[i].node_id \in DOMAIN node_status
       /\ \A d \in wf.nodes[nodeRuns[i].node_id].depends_on :
            (d \in DOMAIN node_status /\ node_status[d] # "SKIPPED") =>
              \E j \in 1..(i - 1) : nodeRuns[j].node_id = d

\* C35: a call of run creates one WorkflowRun row, RUNNING, before any node
\* task executes; the status of the row changes exactly once, from RUNNING to
\* SUCCESS, PARTIAL_SUCCESS or FAILED, after the last node was executed or
\* skipped; one NodeRun row is written per executed node before its
\* successors start.
WorkflowRunLifecycle ==
  /\ [](/\ trace # << >> => workflowRun # NoRow
        /\ RunEnded => workflowRun.status \in TerminalStatuses
        /\ NodeRunRows)
  /\ [][WorkflowRunStep]_vars

\* the part of C35 the code keeps: the same with the terminal status only
\* for a run that returned
WorkflowRunLifecycleOnReturn ==
  /\ [](/\ trace # << >> => workflowRun # NoRow
        /\ wfResult # NoResult => workflowRun.status \in TerminalStatuses
        /\ NodeRunRows)
  /\ [][WorkflowRunStep]_vars

\* ------------------------------------------------------- tie-breaking
\* the node can be handled in the state: it is skipped or it is ready
Actionable(n) ==
  DepFailed(wf.nodes[n], node_status) \/ DepsDone(wf.nodes[n], executed)

\* the node a step executes or skips is the first one, in the order of the
\* nodes sequence, of the nodes the pass still has to look at that can be
\* handled
TieBreakStep ==
  trace' # trace =>
    LET n == trace'[Len(trace')].node
        rest == {passList[i] : i \in DOMAIN passList}
    IN /\ n \in rest /\ Actionable(n)
       /\ \A m \in rest : m < n => ~Actionable(m)

\* the order of a whole run computed from the definition and the outcomes
\* st alone: pass after pass over the pending nodes in sequence order
RECURSIVE OrderFrom(_, _, _, _, _)
OrderFrom(st, pend, list, acc, moved) ==
  IF list = << >>
    THEN IF pend = {} \/ ~moved THEN acc
         ELSE OrderFrom(st, pend, SortedSeq(pend), acc, FALSE)
  ELSE LET n == Head(list)
           done == {acc[i] : i \in DOMAIN acc}
           known == [d \in done \cap DOMAIN st |-> st[d]]
       IN IF DepFailed(wf.nodes[n], known) \/ DepsDone(wf.nodes[n], done)
            THEN OrderFrom(st, pend \ {n}, Tail(list), Append(acc, n), TRUE)
            ELSE OrderFrom(st, pend, Tail(list), acc, moved)
RunOrder(st) == OrderFrom(st, NodeIds, SortedSeq(NodeIds), << >>, FALSE)

IsPrefix(a, b) == Len(a) <= Len(b) /\ \A i \in DOMAIN a : a[i] = b[i]
TraceNodes == [i \in DOMAIN trace |-> trace[i].node]

\* C36: nodes that are ready in the same pass execute in the order of the
\* nodes sequence; the order of a run is a function of the definition and of
\* the task outcomes, so two runs of one definition with the same outcomes
\* execute the nodes in the same order, and the result keys are published in
\* that order.
TieBreaking ==
  /\ [][TieBreakStep]_vars
  /\ [](wf # NoWorkflow =>
          /\ RunEnded => IsPrefix(TraceNodes, RunOrder(node_status))
          /\ IsPrefix(result_keys, TraceNodes)
          /\ {result_keys[i] : i \in DOMAIN result_keys} = DOMAIN results
          /\ Returned => result_keys = RunOrder(node_status))

\* witness of C36: a returned run in which the first pass had two ready
\* nodes and deferred a third one
TieBreakingWitness ==
  /\ Returned
  /\ Len(result_keys) >= 3
  /\ \E n \in NodeIds : n < result_keys[2] /\ TermPos(n) > 2
  /\ DepsOf(result_keys[1]) = {} /\ DepsOf(result_keys[2]) = {}

\* ---------------------------------------------------------- termination
\* a step that ends a pass of the scheduling loop: the for loop is over, or
\* an exception leaves it
PassEnds == pc = "pass" /\ (pc' # "pass" \/ (passList = << >> /\ passList' # << >>))

\* the steps of a run shrink pending: a node is executed or skipped once
RunOnceStep ==
  /\ pending' \subseteq pending \/ pending = {}
  /\ trace' # trace => trace'[Len(trace')].node \in pending

\* on normal return every node has one entry in results, a status, and its
\* task was run at most once
ReturnComplete ==
  Returned =>
    /\ DOMAIN results = NodeIds
    /\ Len(result_keys) = Cardinality(NodeIds)
    /\ \A n \in NodeIds :
         /\ Terminated(n) /\ node_status[n] \in {"SUCCESS", "FAILED", "SKIPPED"}
         /\ Cardinality({i \in DOMAIN trace : trace[i].node = n}) = 1
         /\ n \in DOMAIN calls => calls[n].calls <= 1

\* C38: run terminates: each pass of the scheduling loop removes at least
\* one node from pending or raises the cyclic/blocked error; on normal
\* return every node has exactly one entry in results and a status in
\* {SUCCESS, FAILED, SKIPPED}, and the task of each node was run at most once.
RunTermination ==
  /\ [][PassEnds => (progress \/ exc' = CyclicOrBlockedDAG)]_vars
  /\ [][RunOnceStep]_vars
  /\ []ReturnComplete

\* the part of C38 the code keeps: a pass that reaches its end removed a node
\* or raises the cyclic/blocked error, every run ends, and a returned run is
\* complete
RunTerminationWholePasses ==
  /\ [][(PassEnds /\ passList = << >>) => (progress \/ exc' = CyclicOrBlockedDAG)]_vars
  /\ [][RunOnceStep]_vars
  /\ []ReturnComplete
  /\ <>(pc = "done")

\* ------------------------------------------------- failure containment
\* C39: the task of a node is executed only if every node in its depends_on
\* ended with status SUCCESS; a node with a SKIPPED dependency is not
\* executed, so a FAILED node keeps all its transitive dependents from
\* executing.
FailureContainment ==
  \A n \in NodeIds :
    n \in DOMAIN calls =>
      /\ \A d \in DepsOf(n) : Terminated(d) /\ node_status[d] = "SUCCESS"
      /\ \A a \in TransDeps(n) : Terminated(a) => node_status[a] # "FAILED"

\* the part of C39 the code keeps: no dependency of an executed node is
\* FAILED, every one of them has terminated
DirectFailureContainment ==
  \A n \in NodeIds :
    n \in DOMAIN calls =>
      \A d \in DepsOf(n) : Terminated(d) /\ node_status[d] \in {"SUCCESS", "SKIPPED"}

\* ------------------------------------------------------- start and stop
\* a call of stop() is made in the step: it starts to join, or it returns
\* at once
StopCalled == mainpc' # mainpc /\ mainpc' \in {"join", "stopped_again"}

\* C40: at most one polling thread exists, and every stop() issued while a
\* polling thread is running sets the stop flag, so that the thread ends at
\* its next check; start(); stop(); start(); stop() leaves no polling thread
\* running.
StartStopLifecycle ==
  [][(StopCalled /\ thread = "alive") => stop_flag']_vars

\* the part of C40 the code keeps: the first stop() of a service sets the
\* flag, and a thread is started only when none is alive
FirstStopSetsFlag ==
  [][/\ (StopCalled /\ ~is_stopped) => stop_flag'
     /\ (thread' = "alive" /\ thread # "alive") => (~stop_flag' /\ pc' = "while")]_vars

\* ---------------------------------------------------- polling thread
Finalised(r) == r.status \in {"completado", "fallido"}
\* _execute_workflow has claimed the row in hand
Claimed == exc # NoExc \/ wfResult # NoResult \/ workflowRun # NoRow
InTick == thread = "alive" /\ pc # "while"

ClaimedRowFinalisedState ==
  /\ (pc = "done" /\ Claimed) => Finalised(row)
  /\ (pc = "done" /\ ~Claimed) => row.status = "en_espera"
  /\ \A id \in DOMAIN table : table[id].status # "en_progreso"

\* C13: every row the worker claims leaves en_progreso: when
\* _execute_workflow returns for a row it claimed the row is completado or
\* fallido, whether run() returned or raised, for every definition, and
\* every row that is en_progreso gets there.
ClaimedRowFinalised ==
  /\ []ClaimedRowFinalisedState
  /\ (row.status = "en_progreso") ~> Finalised(row)

\* witness of C13: a row whose run raised and a row whose run returned have
\* both been finalised in one tick
ClaimedRowFinalisedWitness ==
  /\ pc = "done" /\ Returned /\ Finalised(row)
  /\ \E id \in DOMAIN table : table[id].status = "fallido"
  /\ wfIndex = 2

LoopSurvivalState ==
  /\ thread = "dead" => stop_flag
  /\ pc \in {"except", "done"} => thread = "alive"
  /\ (thread = "alive" /\ pc = "while") => wfIndex = Len(pending_workflows) + 1
  /\ \A i \in 1..Len(pending_workflows) :
       (i < wfIndex /\ pending_workflows[i] \in DOMAIN table)
         => table[pending_workflows[i]].status # "en_progreso"

\* C15: a failure while processing one row (conversion, executor, store)
\* never stops the polling loop: the thread ends only with the stop flag
\* set, the for loop goes through the whole list of the tick, and every
\* tick, whatever failed in it, comes back to the while test.
LoopSurvival ==
  /\ []LoopSurvivalState
  /\ [][(pc = "except" /\ pc' # "except") => (thread' = "alive" /\ pc' = "done")]_vars
  /\ InTick ~> (thread = "alive" /\ pc = "while")

\* witness of C15: the first row of a tick failed with an exception and the
\* second row of the same tick was executed and completed
LoopSurvivalWitness ==
  /\ thread = "alive" /\ pc = "done"
  /\ wfIndex = 2 /\ Len(pending_workflows) = 2
  /\ table[pending_workflows[1]].status = "fallido"
  /\ "execution_results" \notin DOMAIN table[pending_workflows[1]].definition
  /\ row.status = "completado"

\* C16: a second or later call of stop() changes nothing: flags, registry,
\* engines, statistics, thread and store are as the first call left them.
StopIdempotent ==
  [][(is_stopped /\ mainpc # "join" /\ mainpc' # mainpc)
       => /\ mainpc' = "stopped_again"
          /\ UNCHANGED <<engineVars, table, pending_workflows, wfIndex, stop_flag,
                         is_stopped, thread>>]_vars

\* witness of C16: stop() was called again after a first call had finished
StopIdempotentWitness ==
  /\ mainpc = "stopped_again" /\ is_stopped /\ registry = {}

\* C17: once stop() has set the flag the loop claims no further pending
\* row: after a workflow of the tick has run to completion the for loop goes
\* on to another row only while the flag is not set.
StopFlagGranularity ==
  [][(/\ pc = "for" /\ pc' = "poll" /\ wfIndex > 1
      /\ Finalised(table[pending_workflows[wfIndex - 1]]))
       => ~stop_flag]_vars

\* C18: the registry is read-only while the loop runs: a workflow in flight
\* never finds a registered task type missing.
RegistryReadOnly ==
  \A n \in DOMAIN calls :
    (calls[n].kind = "raise" /\ calls[n].exc = UnknownTaskType)
      => wf.nodes[n].type \notin RegisteredTypes

\* ------------------------------------------------- several processes
\* C11: with two or more workers polling the same store each row is
\* executed by at most one worker and shows at most one
\* en_espera -> en_progreso -> (completado | fallido) sequence.
ClaimUniqueness ==
  \A id \in DOMAIN store :
    /\ Len(runs[id]) <= 1
    /\ Len(history[id]) <= 2
    /\ Len(history[id]) >= 1 => history[id][1] = "en_progreso"
    /\ Len(history[id]) = 2 => history[id][2] \in {"completado", "fallido"}

\* C12: the claim succeeds only on a row that is en_espera: a row is
\* executed only when the claim found it en_espera, a claim on any other
\* row leaves its status alone, and a row that is completado or fallido
\* never changes status again.
ConditionalClaim ==
  [][\A id \in DOMAIN store :
       /\ Len(runs'[id]) > Len(runs[id]) => store[id].status = "en_espera"
       /\ Finalised(store[id]) => store'[id].status = store[id].status]_vars

====
